---- MODULE Spec2Model ----
(***************************************************************************)
(* A model of the nes-rs emulator core: the CPU-side memory bus            *)
(* (src/nes/memory.rs), the opcode table (src/nes/opcode.rs), instruction  *)
(* decode and execution (src/nes/instruction.rs), the CPU step             *)
(* (src/nes/cpu.rs), the PPU's handling of its I/O registers               *)
(* (src/nes/ppu.rs), the console step (src/nes/nes.rs) and the             *)
(* arithmetic/paging helpers (src/utils).                                  *)
(*                                                                         *)
(* Bytes are naturals in 0..255 and words naturals in 0..65535; every      *)
(* operation keeps the width the Rust code gives it.  Rust integer         *)
(* arithmetic written with the plain operators (+, -, +=, unary -) panics  *)
(* on overflow when the build has overflow checks (the debug profile) and  *)
(* wraps otherwise (the release profile); the variable overflow_checks     *)
(* holds which of the two the build is.                                    *)
(***************************************************************************)
EXTENDS Integers, Sequences, FiniteSets, TLC

VARIABLES
    cpu,              \* CPU registers: pc, sp, a, x, y, p, cycles, ppu_dots
    memory,           \* Memory: stored bytes and I/O register touch states
    run,              \* "running", or "panicked" once a panic has unwound
    overflow_checks,  \* build profile: TRUE = overflow panics, FALSE = wraps
    ret,              \* value returned by the last operation
    hist,             \* record of the operations performed so far
    ppu,              \* PPU registers
    dbg               \* debugger: its fields, both channels, the reader thread

vars == <<cpu, memory, run, overflow_checks, ret, hist, ppu, dbg>>

\* Debugger::new with the two sync_channel(1) channels of NES::run empty and
\* the readline thread at its prompt: stepping starts true, shutdown false.
\* receiver holds the lines in flight to the emulator, sender the
\* acknowledgement codes in flight to the reader; reader is where the
\* readline thread is, line the line it read last, got what its recv
\* returned for that line, and at where Debugger::step is.
DebuggerNew ==
    [stepping |-> TRUE, shutdown |-> FALSE, receiver |-> << >>,
     sender |-> << >>, reader |-> "prompt", line |-> << >>, got |-> "None",
     at |-> "top"]

----------------------------------------------------------------------------
(* Bounds of the model.                                                    *)

\* number of stack operations performed in one behaviour of SpecStack
MaxOps == 2

----------------------------------------------------------------------------
(* Fixed-width integer helpers.                                            *)

Byte == 0..255
Word == 0..65535

RECURSIVE BitAnd(_, _)
BitAnd(a, b) ==
    IF a = 0 \/ b = 0 THEN 0
    ELSE (a % 2) * (b % 2) + 2 * BitAnd(a \div 2, b \div 2)

BitOr(a, b)  == a + b - BitAnd(a, b)
BitXor(a, b) == a + b - 2 * BitAnd(a, b)
BitNot8(a)   == 255 - a

wrapping_add8(a, b)  == (a + b) % 256
wrapping_sub8(a, b)  == (a - b + 256) % 256
wrapping_add16(a, b) == (a + b) % 65536
wrapping_sub16(a, b) == (a - b + 65536) % 65536

\* byteorder LittleEndian read_u16 / write_u16 over a two-byte buffer
le_u16(lsb, msb) == lsb + 256 * msb
le_lsb(val)      == val % 256
le_msb(val)      == val \div 256

----------------------------------------------------------------------------
(* src/nes/memory.rs                                                       *)

RAM_SIZE                 == 2048
PPU_CTRL_REGISTERS_SIZE  == 8
MISC_CTRL_REGISTERS_SIZE == 32
EXPANSION_ROM_SIZE       == 8160
SRAM_SIZE                == 8192
PRG_ROM_SIZE             == 16384

RAM_START_ADDR                  == 0
RAM_END_ADDR                    == 2047
RAM_MIRROR_START                == 2048
RAM_MIRROR_END                  == 8191
PPU_CTRL_REGISTERS_START        == 8192
PPU_CTRL_REGISTERS_END          == 8199
PPU_CTRL_REGISTERS_MIRROR_START == 8200
PPU_CTRL_REGISTERS_MIRROR_END   == 16383
MISC_CTRL_REGISTERS_START       == 16384
MISC_CTRL_REGISTERS_END         == 16415
EXPANSION_ROM_START             == 16416
EXPANSION_ROM_END               == 24575
SRAM_START                      == 24576
SRAM_END                        == 32767
PRG_ROM_1_START                 == 32768
PRG_ROM_1_END                   == 49151
PRG_ROM_2_START                 == 49152
PRG_ROM_2_END                   == 65535

STACK_OFFSET == 256

MemoryOperation    == {"Read", "Write", "Nop"}
PPURegisterStatus  == {"Read", "Written", "WrittenTwice", "Untouched"}
MiscRegisterStatus == {"Read", "Written", "Untouched"}

\* Memory::new.  The banks are kept sparsely: bytes maps the physical cells
\* <<bank, index>> that hold a non-zero byte to that byte, every other cell
\* of every bank holds 0.
MemoryNew ==
    [ bytes |-> << >>,
      ppu_ctrl_registers_status  |->
          [i \in 0..(PPU_CTRL_REGISTERS_SIZE - 1) |-> "Untouched"],
      misc_ctrl_registers_status |->
          [i \in 0..(MISC_CTRL_REGISTERS_SIZE - 1) |-> "Untouched"] ]

\* bank[idx]
Load(m, bank, idx) ==
    IF <<bank, idx>> \in DOMAIN m.bytes THEN m.bytes[<<bank, idx>>] ELSE 0

\* bank[idx] = val
Store(m, bank, idx, val) ==
    LET cell == <<bank, idx>>
        keep == DOMAIN m.bytes \ {cell}
        rest == [c \in keep |-> m.bytes[c]]
    IN  [m EXCEPT !.bytes = IF val = 0 THEN rest ELSE (cell :> val) @@ rest]

\* update_ppu_register_status recording a Read over any state but
\* WrittenTwice, and never collapsing two writes
update_ppu_register_status_last_access(m, addr, operation) ==
    LET st == m.ppu_ctrl_registers_status[addr]
        new == IF st # "WrittenTwice"
                   THEN CASE operation = "Read"  -> "Read"
                          [] operation = "Write" -> "Written"
                          [] operation = "Nop"   -> st
               ELSE st
    IN  [m EXCEPT !.ppu_ctrl_registers_status[addr] = new]

update_ppu_register_status(m, addr, operation) ==
    LET st == m.ppu_ctrl_registers_status[addr]
        new == IF st = "Written" /\ operation = "Write"
                   THEN "WrittenTwice"
               ELSE IF st # "Written" /\ st # "WrittenTwice"
                   THEN CASE operation = "Read"  -> "Read"
                          [] operation = "Write" -> "Written"
                          [] operation = "Nop"   -> st
               ELSE st
    IN  [m EXCEPT !.ppu_ctrl_registers_status[addr] = new]

map_ppu_registers(m, addr, operation) ==
    LET m1 == update_ppu_register_status(m, addr, operation)
        rd == addr \in {2, 4, 7}
        wr == addr \in {0, 1, 3, 4, 5, 6, 7}
    IN  [bank |-> "ppu_ctrl_registers", idx |-> addr,
         readable |-> rd, writable |-> wr, mem |-> m1, ok |-> TRUE]

update_misc_register_status(m, addr, operation) ==
    LET st == m.misc_ctrl_registers_status[addr]
        new == CASE operation = "Read"  -> "Read"
                 [] operation = "Write" -> "Written"
                 [] operation = "Nop"   -> st
    IN  [m EXCEPT !.misc_ctrl_registers_status[addr] = new]

map_misc_registers(m, addr, operation) ==
    LET m1 == update_misc_register_status(m, addr, operation)
    IN  [bank |-> "misc_ctrl_registers", idx |-> addr,
         readable |-> (addr # 20), writable |-> TRUE, mem |-> m1, ok |-> TRUE]

\* map indexing the RAM bank with the mirror address itself
map_unfolded_mirror(m, addr, operation) ==
    CASE addr >= RAM_START_ADDR /\ addr <= RAM_END_ADDR ->
           [bank |-> "ram", idx |-> addr,
            readable |-> TRUE, writable |-> TRUE, mem |-> m, ok |-> TRUE]
      [] addr >= RAM_MIRROR_START /\ addr <= RAM_MIRROR_END ->
           [bank |-> "ram", idx |-> addr,
            readable |-> TRUE, writable |-> TRUE, mem |-> m, ok |-> TRUE]
      [] addr >= PPU_CTRL_REGISTERS_START /\ addr <= PPU_CTRL_REGISTERS_END ->
           map_ppu_registers(m, addr - PPU_CTRL_REGISTERS_START, operation)
      [] addr >= PPU_CTRL_REGISTERS_MIRROR_START
           /\ addr <= PPU_CTRL_REGISTERS_MIRROR_END ->
           map_ppu_registers(m,
               (addr - PPU_CTRL_REGISTERS_START) % PPU_CTRL_REGISTERS_SIZE,
               operation)
      [] addr >= MISC_CTRL_REGISTERS_START /\ addr <= MISC_CTRL_REGISTERS_END ->
           map_misc_registers(m, addr - MISC_CTRL_REGISTERS_START, operation)
      [] addr >= EXPANSION_ROM_START /\ addr <= EXPANSION_ROM_END ->
           [bank |-> "expansion_rom", idx |-> addr - EXPANSION_ROM_START,
            readable |-> TRUE, writable |-> FALSE, mem |-> m, ok |-> TRUE]
      [] addr >= SRAM_START /\ addr <= SRAM_END ->
           [bank |-> "sram", idx |-> addr - SRAM_START,
            readable |-> TRUE, writable |-> TRUE, mem |-> m, ok |-> TRUE]
      [] addr >= PRG_ROM_1_START /\ addr <= PRG_ROM_1_END ->
           [bank |-> "prg_rom_1", idx |-> addr - PRG_ROM_1_START,
            readable |-> TRUE, writable |-> FALSE, mem |-> m, ok |-> TRUE]
      [] addr >= PRG_ROM_2_START /\ addr <= PRG_ROM_2_END ->
           [bank |-> "prg_rom_2", idx |-> addr - PRG_ROM_2_START,
            readable |-> TRUE, writable |-> FALSE, mem |-> m, ok |-> TRUE]
      [] OTHER ->
           [bank |-> "none", idx |-> 0,
            readable |-> FALSE, writable |-> FALSE, mem |-> m, ok |-> FALSE]

\* map taking the expansion ROM index from the base of the I/O registers
map_expansion_from_io_base(m, addr, operation) ==
    CASE addr >= RAM_START_ADDR /\ addr <= RAM_END_ADDR ->
           [bank |-> "ram", idx |-> addr,
            readable |-> TRUE, writable |-> TRUE, mem |-> m, ok |-> TRUE]
      [] addr >= RAM_MIRROR_START /\ addr <= RAM_MIRROR_END ->
           [bank |-> "ram", idx |-> addr % RAM_SIZE,
            readable |-> TRUE, writable |-> TRUE, mem |-> m, ok |-> TRUE]
      [] addr >= PPU_CTRL_REGISTERS_START /\ addr <= PPU_CTRL_REGISTERS_END ->
           map_ppu_registers(m, addr - PPU_CTRL_REGISTERS_START, operation)
      [] addr >= PPU_CTRL_REGISTERS_MIRROR_START
           /\ addr <= PPU_CTRL_REGISTERS_MIRROR_END ->
           map_ppu_registers(m,
               (addr - PPU_CTRL_REGISTERS_START) % PPU_CTRL_REGISTERS_SIZE,
               operation)
      [] addr >= MISC_CTRL_REGISTERS_START /\ addr <= MISC_CTRL_REGISTERS_END ->
           map_misc_registers(m, addr - MISC_CTRL_REGISTERS_START, operation)
      [] addr >= EXPANSION_ROM_START /\ addr <= EXPANSION_ROM_END ->
           [bank |-> "expansion_rom", idx |-> addr - MISC_CTRL_REGISTERS_START,
            readable |-> TRUE, writable |-> FALSE, mem |-> m, ok |-> TRUE]
      [] addr >= SRAM_START /\ addr <= SRAM_END ->
           [bank |-> "sram", idx |-> addr - SRAM_START,
            readable |-> TRUE, writable |-> TRUE, mem |-> m, ok |-> TRUE]
      [] addr >= PRG_ROM_1_START /\ addr <= PRG_ROM_1_END ->
           [bank |-> "prg_rom_1", idx |-> addr - PRG_ROM_1_START,
            readable |-> TRUE, writable |-> FALSE, mem |-> m, ok |-> TRUE]
      [] addr >= PRG_ROM_2_START /\ addr <= PRG_ROM_2_END ->
           [bank |-> "prg_rom_2", idx |-> addr - PRG_ROM_2_START,
            readable |-> TRUE, writable |-> FALSE, mem |-> m, ok |-> TRUE]
      [] OTHER ->
           [bank |-> "none", idx |-> 0,
            readable |-> FALSE, writable |-> FALSE, mem |-> m, ok |-> FALSE]

\* Memory::map.  ok = FALSE stands for the panic of the last match arm.
map(m, addr, operation) ==
    CASE addr >= RAM_START_ADDR /\ addr <= RAM_END_ADDR ->
           [bank |-> "ram", idx |-> addr,
            readable |-> TRUE, writable |-> TRUE, mem |-> m, ok |-> TRUE]
      [] addr >= RAM_MIRROR_START /\ addr <= RAM_MIRROR_END ->
           [bank |-> "ram", idx |-> addr % RAM_SIZE,
            readable |-> TRUE, writable |-> TRUE, mem |-> m, ok |-> TRUE]
      [] addr >= PPU_CTRL_REGISTERS_START /\ addr <= PPU_CTRL_REGISTERS_END ->
           map_ppu_registers(m, addr - PPU_CTRL_REGISTERS_START, operation)
      [] addr >= PPU_CTRL_REGISTERS_MIRROR_START
           /\ addr <= PPU_CTRL_REGISTERS_MIRROR_END ->
           map_ppu_registers(m,
               (addr - PPU_CTRL_REGISTERS_START) % PPU_CTRL_REGISTERS_SIZE,
               operation)
      [] addr >= MISC_CTRL_REGISTERS_START /\ addr <= MISC_CTRL_REGISTERS_END ->
           map_misc_registers(m, addr - MISC_CTRL_REGISTERS_START, operation)
      [] addr >= EXPANSION_ROM_START /\ addr <= EXPANSION_ROM_END ->
           [bank |-> "expansion_rom", idx |-> addr - EXPANSION_ROM_START,
            readable |-> TRUE, writable |-> FALSE, mem |-> m, ok |-> TRUE]
      [] addr >= SRAM_START /\ addr <= SRAM_END ->
           [bank |-> "sram", idx |-> addr - SRAM_START,
            readable |-> TRUE, writable |-> TRUE, mem |-> m, ok |-> TRUE]
      [] addr >= PRG_ROM_1_START /\ addr <= PRG_ROM_1_END ->
           [bank |-> "prg_rom_1", idx |-> addr - PRG_ROM_1_START,
            readable |-> TRUE, writable |-> FALSE, mem |-> m, ok |-> TRUE]
      [] addr >= PRG_ROM_2_START /\ addr <= PRG_ROM_2_END ->
           [bank |-> "prg_rom_2", idx |-> addr - PRG_ROM_2_START,
            readable |-> TRUE, writable |-> FALSE, mem |-> m, ok |-> TRUE]
      [] OTHER ->
           [bank |-> "none", idx |-> 0,
            readable |-> FALSE, writable |-> FALSE, mem |-> m, ok |-> FALSE]

\* The bus operations return the value read (val), the memory after the
\* access (mem) and whether the access completed without a panic (ok).
\* ReadAt and WriteAt are the access to the cell r that map returned;
\* restricted accesses honour its readable / writable answer.
ReadAt(r, restricted) ==
    [val |-> IF r.ok /\ (r.readable \/ ~restricted)
                 THEN Load(r.mem, r.bank, r.idx) ELSE 0,
     mem |-> r.mem, ok |-> r.ok]

WriteAt(r, val, restricted) ==
    [val |-> 0,
     mem |-> IF r.ok /\ (r.writable \/ ~restricted)
                 THEN Store(r.mem, r.bank, r.idx, val) ELSE r.mem,
     ok  |-> r.ok]

\* write_u8 storing the byte whatever map answers for writable
write_u8_ungated(m, addr, val) == WriteAt(map(m, addr, "Write"), val, FALSE)

read_u8(m, addr)       == ReadAt(map(m, addr, "Read"), TRUE)
write_u8(m, addr, val) == WriteAt(map(m, addr, "Write"), val, TRUE)

read_u8_unrestricted(m, addr)       == ReadAt(map(m, addr, "Nop"), FALSE)
write_u8_unrestricted(m, addr, val) == WriteAt(map(m, addr, "Nop"), val, FALSE)

\* the word made of the byte lsb and the byte that the read r2 returned
JoinWord(lsb, r2) ==
    [val |-> le_u16(lsb, r2.val), mem |-> r2.mem, ok |-> r2.ok]

\* the second read of a pair, after the read r1 of the low byte; a panic in
\* the first read stops the second
ReadSecond(r1, hi) ==
    IF ~r1.ok THEN [val |-> 0, mem |-> r1.mem, ok |-> FALSE]
    ELSE JoinWord(r1.val, read_u8(r1.mem, hi))

\* two reads in sequence, first lo then hi
ReadPair(m, lo, hi) == ReadSecond(read_u8(m, lo), hi)

\* the second write of a pair, after the write w1 of the low byte
WriteSecond(w1, hi, val) ==
    IF ~w1.ok THEN w1 ELSE write_u8(w1.mem, hi, le_msb(val))

\* two writes in sequence
WritePair(m, lo, hi, val) ==
    WriteSecond(write_u8(m, lo, le_lsb(val)), hi, val)

read_u16(m, addr)     == ReadPair(m, addr, addr + 1)
read_u16_alt(m, addr) == ReadPair(m, addr - 1, addr)

\* read_u16_wrapped_msb without the wrap: the high byte always from addr + 1
read_u16_wrapped_msb_carrying(m, addr) == ReadPair(m, addr, addr + 1)

read_u16_wrapped_msb(m, addr) ==
    ReadPair(m, addr, IF addr % 256 = 255 THEN addr - 255 ELSE addr + 1)

read_u16_wrapped_msb_alt(m, addr) ==
    ReadPair(m, addr - 1, IF addr % 256 = 255 THEN addr - 255 ELSE addr)

write_u16(m, addr, val)     == WritePair(m, addr, addr + 1, val)
write_u16_alt(m, addr, val) == WritePair(m, addr - 1, addr, val)

RECURSIVE memdump(_, _, _)
memdump(m, addr, buf) ==
    IF buf = << >> THEN m
    ELSE memdump(write_u8_unrestricted(m, addr, Head(buf)).mem,
                 addr + 1, Tail(buf))

\* The stack helpers return the CPU and the memory after the call, and the
\* value popped.  StackResult joins the CPU with its new stack pointer and
\* the bus access r that the helper made.
StackResult(c, r) == [cpu |-> c, mem |-> r.mem, val |-> r.val]

stack_push_u8(c, m, value) ==
    StackResult([c EXCEPT !.sp = wrapping_sub8(c.sp, 1)],
                write_u8(m, STACK_OFFSET + c.sp, value))

stack_pop_u8(c, m) ==
    StackResult([c EXCEPT !.sp = wrapping_add8(c.sp, 1)],
                read_u8(m, STACK_OFFSET + wrapping_add8(c.sp, 1)))

stack_push_u16(c, m, value) ==
    StackResult([c EXCEPT !.sp = wrapping_sub8(c.sp, 2)],
                write_u16_alt(m, STACK_OFFSET + c.sp, value))

\* stack_pop_u16 reading the word with read_u16 (upwards from the address)
\* instead of read_u16_alt
stack_pop_u16_upwards(c, m) ==
    StackResult([c EXCEPT !.sp = wrapping_add8(c.sp, 2)],
                read_u16(m, STACK_OFFSET + wrapping_add8(c.sp, 2)))

stack_pop_u16(c, m) ==
    StackResult([c EXCEPT !.sp = wrapping_add8(c.sp, 2)],
                read_u16_alt(m, STACK_OFFSET + wrapping_add8(c.sp, 2)))

----------------------------------------------------------------------------
(* src/nes/cpu.rs                                                          *)

\* CPU::new
CPUNew(pc) ==
    [pc |-> pc, sp |-> 253, a |-> 0, x |-> 0, y |-> 0, p |-> 36,
     cycles |-> 0, ppu_dots |-> 0]

----------------------------------------------------------------------------
(* src/utils/arithmetic.rs and src/utils/paging.rs                         *)

SIGN_BITMASK == 128

is_negative(arg) == BitAnd(arg, SIGN_BITMASK) = SIGN_BITMASK

\* `arg as i8`: the byte read as a two's-complement value
as_i8(arg) == IF arg >= 128 THEN arg - 256 ELSE arg

\* add_relative(base_addr, displacement), displacement an i8.  For a negative
\* displacement the code computes -(displacement) in i8 before widening it:
\* for -128 that negation overflows, which panics under overflow checks and
\* otherwise yields -128 again, which `as u16` turns into 0xFF80.
add_relative(base_addr, displacement, oc) ==
    IF displacement < 0
        THEN IF displacement = -128
                 THEN IF oc THEN [val |-> base_addr, ok |-> FALSE]
                      ELSE [val |-> wrapping_sub16(base_addr, 65408),
                            ok |-> TRUE]
                 ELSE [val |-> wrapping_sub16(base_addr, -displacement),
                       ok |-> TRUE]
        ELSE [val |-> wrapping_add16(base_addr, displacement), ok |-> TRUE]

\* page(addr) = (addr as u16 >> 8) as u8
page(addr) == (addr % 65536) \div 256

page_cross(addr1, addr2) ==
    LET page1 == page(addr1)
        page2 == page(addr2)
    IN  IF page1 > page2 THEN "Backwards"
        ELSE IF page1 < page2 THEN "Forwards"
        ELSE "Same"

----------------------------------------------------------------------------
(* src/nes/cpu.rs: status flags                                            *)

CARRY_FLAG        == 1
ZERO_FLAG         == 2
INTERRUPT_DISABLE == 4
DECIMAL_MODE      == 8
BREAK_COMMAND     == 16
OVERFLOW_FLAG     == 64
NEGATIVE_FLAG     == 128

\* set_carry_flag .. set_negative_flag:  self.p |= FLAG
set_flag(c, flag) == [c EXCEPT !.p = BitOr(c.p, flag)]

\* unset_carry_flag .. unset_negative_flag:  self.p &= !FLAG
unset_flag(c, flag) == [c EXCEPT !.p = BitAnd(c.p, BitNot8(flag))]

\* carry_flag_set .. negative_flag_set:  self.p & FLAG == FLAG
flag_set(c, flag) == BitAnd(c.p, flag) = flag

toggle_carry_flag(c, overflow) ==
    IF overflow THEN set_flag(c, CARRY_FLAG) ELSE unset_flag(c, CARRY_FLAG)

\* toggle_zero_flag setting the flag for a value of 0x80 as well
toggle_zero_flag_ignoring_sign(c, value) ==
    IF value % 128 = 0 THEN set_flag(c, ZERO_FLAG)
    ELSE unset_flag(c, ZERO_FLAG)

toggle_zero_flag(c, value) ==
    IF value = 0 THEN set_flag(c, ZERO_FLAG) ELSE unset_flag(c, ZERO_FLAG)

toggle_negative_flag(c, value) ==
    IF is_negative(value) THEN set_flag(c, NEGATIVE_FLAG)
    ELSE unset_flag(c, NEGATIVE_FLAG)

\* the pair toggle_zero_flag(v); toggle_negative_flag(v) that closes most arms
toggle_zn(c, value) == toggle_negative_flag(toggle_zero_flag(c, value), value)

----------------------------------------------------------------------------
(* src/nes/opcode.rs                                                       *)

\* enum Opcode: the discriminant of each of the 151 variants
OpcodeEnum ==
    0 :> "BRKImp" @@ 1 :> "ORAIndX" @@ 5 :> "ORAZero" @@ 6 :> "ASLZero" @@
    8 :> "PHPImp" @@ 9 :> "ORAImm" @@ 10 :> "ASLAcc" @@ 13 :> "ORAAbs" @@
    14 :> "ASLAbs" @@ 16 :> "BPLRel" @@ 17 :> "ORAIndY" @@
    21 :> "ORAZeroX" @@ 22 :> "ASLZeroX" @@ 24 :> "CLCImp" @@
    25 :> "ORAAbsY" @@ 29 :> "ORAAbsX" @@ 30 :> "ASLAbsX" @@
    32 :> "JSRAbs" @@ 33 :> "ANDIndX" @@ 36 :> "BITZero" @@
    37 :> "ANDZero" @@ 38 :> "ROLZero" @@ 40 :> "PLPImp" @@
    41 :> "ANDImm" @@ 42 :> "ROLAcc" @@ 44 :> "BITAbs" @@ 45 :> "ANDAbs" @@
    46 :> "ROLAbs" @@ 48 :> "BMIRel" @@ 49 :> "ANDIndY" @@
    53 :> "ANDZeroX" @@ 54 :> "ROLZeroX" @@ 56 :> "SECImp" @@
    57 :> "ANDAbsY" @@ 61 :> "ANDAbsX" @@ 62 :> "ROLAbsX" @@
    64 :> "RTIImp" @@ 65 :> "EORIndX" @@ 69 :> "EORZero" @@
    70 :> "LSRZero" @@ 72 :> "PHAImp" @@ 73 :> "EORImm" @@
    74 :> "LSRAcc" @@ 76 :> "JMPAbs" @@ 77 :> "EORAbs" @@ 78 :> "LSRAbs" @@
    80 :> "BVCRel" @@ 81 :> "EORIndY" @@ 85 :> "EORZeroX" @@
    86 :> "LSRZeroX" @@ 88 :> "CLIImp" @@ 89 :> "EORAbsY" @@
    93 :> "EORAbsX" @@ 94 :> "LSRAbsX" @@ 96 :> "RTSImp" @@
    97 :> "ADCIndX" @@ 101 :> "ADCZero" @@ 102 :> "RORZero" @@
    104 :> "PLAImp" @@ 105 :> "ADCImm" @@ 106 :> "RORAcc" @@
    108 :> "JMPInd" @@ 109 :> "ADCAbs" @@ 110 :> "RORAbs" @@
    112 :> "BVSRel" @@ 113 :> "ADCIndY" @@ 117 :> "ADCZeroX" @@
    118 :> "RORZeroX" @@ 120 :> "SEIImp" @@ 121 :> "ADCAbsY" @@
    125 :> "ADCAbsX" @@ 126 :> "RORAbsX" @@ 129 :> "STAIndX" @@
    132 :> "STYZero" @@ 133 :> "STAZero" @@ 134 :> "STXZero" @@
    136 :> "DEYImp" @@ 138 :> "TXAImp" @@ 140 :> "STYAbs" @@
    141 :> "STAAbs" @@ 142 :> "STXAbs" @@ 144 :> "BCCRel" @@
    145 :> "STAIndY" @@ 148 :> "STYZeroX" @@ 149 :> "STAZeroX" @@
    150 :> "STXZeroY" @@ 152 :> "TYAImp" @@ 153 :> "STAAbsY" @@
    154 :> "TXSImp" @@ 157 :> "STAAbsX" @@ 160 :> "LDYImm" @@
    161 :> "LDAIndX" @@ 162 :> "LDXImm" @@ 164 :> "LDYZero" @@
    165 :> "LDAZero" @@ 166 :> "LDXZero" @@ 168 :> "TAYImp" @@
    169 :> "LDAImm" @@ 170 :> "TAXImp" @@ 172 :> "LDYAbs" @@
    173 :> "LDAAbs" @@ 174 :> "LDXAbs" @@ 176 :> "BCSRel" @@
    177 :> "LDAIndY" @@ 180 :> "LDYZeroX" @@ 181 :> "LDAZeroX" @@
    182 :> "LDXZeroY" @@ 184 :> "CLVImp" @@ 185 :> "LDAAbsY" @@
    186 :> "TSXImp" @@ 188 :> "LDYAbsX" @@ 189 :> "LDAAbsX" @@
    190 :> "LDXAbsY" @@ 192 :> "CPYImm" @@ 193 :> "CMPIndX" @@
    196 :> "CPYZero" @@ 197 :> "CMPZero" @@ 198 :> "DECZero" @@
    200 :> "INYImp" @@ 201 :> "CMPImm" @@ 202 :> "DEXImp" @@
    204 :> "CPYAbs" @@ 205 :> "CMPAbs" @@ 206 :> "DECAbs" @@
    208 :> "BNERel" @@ 209 :> "CMPIndY" @@ 213 :> "CMPZeroX" @@
    214 :> "DECZeroX" @@ 216 :> "CLDImp" @@ 217 :> "CMPAbsY" @@
    221 :> "CMPAbsX" @@ 222 :> "DECAbsX" @@ 224 :> "CPXImm" @@
    225 :> "SBCIndX" @@ 228 :> "CPXZero" @@ 229 :> "SBCZero" @@
    230 :> "INCZero" @@ 232 :> "INXImp" @@ 233 :> "SBCImm" @@
    234 :> "NOPImp" @@ 236 :> "CPXAbs" @@ 237 :> "SBCAbs" @@
    238 :> "INCAbs" @@ 240 :> "BEQRel" @@ 241 :> "SBCIndY" @@
    245 :> "SBCZeroX" @@ 246 :> "INCZeroX" @@ 248 :> "SEDImp" @@
    249 :> "SBCAbsY" @@ 253 :> "SBCAbsX" @@ 254 :> "INCAbsX"

\* opcode_len: instruction length per opcode
opcode_len(opcode) ==
    CASE opcode \in {"BRKImp", "PHPImp", "ASLAcc", "CLCImp",
                     "PLPImp", "ROLAcc", "SECImp", "RTIImp",
                     "PHAImp", "LSRAcc", "CLIImp", "RTSImp",
                     "PLAImp", "RORAcc", "SEIImp", "DEYImp",
                     "TXAImp", "TYAImp", "TXSImp", "TAYImp",
                     "TAXImp", "CLVImp", "TSXImp", "INYImp",
                     "DEXImp", "CLDImp", "INXImp", "NOPImp",
                     "SEDImp"} -> 1
      [] opcode \in {"ORAIndX", "ORAZero", "ASLZero", "ORAImm",
                     "BPLRel", "ORAIndY", "ORAZeroX", "ASLZeroX",
                     "ANDIndX", "BITZero", "ANDZero", "ROLZero",
                     "ANDImm", "BMIRel", "ANDIndY", "ANDZeroX",
                     "ROLZeroX", "EORIndX", "EORZero", "LSRZero",
                     "EORImm", "BVCRel", "EORIndY", "EORZeroX",
                     "LSRZeroX", "ADCIndX", "ADCZero", "RORZero",
                     "ADCImm", "BVSRel", "ADCIndY", "ADCZeroX",
                     "RORZeroX", "STAIndX", "STYZero", "STAZero",
                     "STXZero", "BCCRel", "STAIndY", "STYZeroX",
                     "STAZeroX", "STXZeroY", "LDYImm", "LDAIndX",
                     "LDXImm", "LDYZero", "LDAZero", "LDXZero",
                     "LDAImm", "BCSRel", "LDAIndY", "LDYZeroX",
                     "LDAZeroX", "LDXZeroY", "CPYImm", "CMPIndX",
                     "CPYZero", "CMPZero", "DECZero", "CMPImm",
                     "BNERel", "CMPIndY", "CMPZeroX", "DECZeroX",
                     "CPXImm", "SBCIndX", "CPXZero", "SBCZero",
                     "INCZero", "SBCImm", "BEQRel", "SBCIndY",
                     "SBCZeroX", "INCZeroX"} -> 2
      [] opcode \in {"ORAAbs", "ASLAbs", "ORAAbsY", "ORAAbsX",
                     "ASLAbsX", "JSRAbs", "BITAbs", "ANDAbs",
                     "ROLAbs", "ANDAbsY", "ANDAbsX", "ROLAbsX",
                     "JMPAbs", "EORAbs", "LSRAbs", "EORAbsY",
                     "EORAbsX", "LSRAbsX", "JMPInd", "ADCAbs",
                     "RORAbs", "ADCAbsY", "ADCAbsX", "RORAbsX",
                     "STYAbs", "STAAbs", "STXAbs", "STAAbsY",
                     "STAAbsX", "LDYAbs", "LDAAbs", "LDXAbs",
                     "LDAAbsY", "LDYAbsX", "LDAAbsX", "LDXAbsY",
                     "CPYAbs", "CMPAbs", "DECAbs", "CMPAbsY",
                     "CMPAbsX", "DECAbsX", "CPXAbs", "SBCAbs",
                     "INCAbs", "SBCAbsY", "SBCAbsX", "INCAbsX"} -> 3

\* the cycles every run of the opcode's arm of Instruction::execute adds
\* to cpu.cycles (the conditional page-cross and branch additions are in
\* the arms below)
BaseCycles(opcode) ==
    CASE opcode \in {"ORAImm", "ASLAcc", "BPLRel", "CLCImp",
                     "ANDImm", "ROLAcc", "BMIRel", "SECImp",
                     "EORImm", "LSRAcc", "BVCRel", "CLIImp",
                     "ADCImm", "RORAcc", "BVSRel", "SEIImp",
                     "DEYImp", "TXAImp", "BCCRel", "TYAImp",
                     "TXSImp", "LDYImm", "LDXImm", "TAYImp",
                     "LDAImm", "TAXImp", "BCSRel", "CLVImp",
                     "TSXImp", "CPYImm", "INYImp", "CMPImm",
                     "DEXImp", "BNERel", "CLDImp", "CPXImm",
                     "INXImp", "SBCImm", "NOPImp", "BEQRel",
                     "SEDImp"} -> 2
      [] opcode \in {"ORAZero", "PHPImp", "BITZero", "ANDZero",
                     "EORZero", "PHAImp", "JMPAbs", "ADCZero",
                     "STYZero", "STAZero", "STXZero", "LDYZero",
                     "LDAZero", "LDXZero", "CPYZero", "CMPZero",
                     "CPXZero", "SBCZero"} -> 3
      [] opcode \in {"ORAAbs", "ORAZeroX", "ORAAbsY", "ORAAbsX",
                     "PLPImp", "BITAbs", "ANDAbs", "ANDZeroX",
                     "ANDAbsY", "ANDAbsX", "EORAbs", "EORZeroX",
                     "EORAbsY", "EORAbsX", "PLAImp", "ADCAbs",
                     "ADCZeroX", "ADCAbsY", "ADCAbsX", "STYAbs",
                     "STAAbs", "STXAbs", "STYZeroX", "STAZeroX",
                     "STXZeroY", "LDYAbs", "LDAAbs", "LDXAbs",
                     "LDYZeroX", "LDAZeroX", "LDXZeroY", "LDAAbsY",
                     "LDYAbsX", "LDAAbsX", "LDXAbsY", "CPYAbs",
                     "CMPAbs", "CMPZeroX", "CMPAbsY", "CMPAbsX",
                     "CPXAbs", "SBCAbs", "SBCZeroX", "SBCAbsY",
                     "SBCAbsX"} -> 4
      [] opcode \in {"ASLZero", "ORAIndY", "ROLZero", "ANDIndY",
                     "LSRZero", "EORIndY", "RORZero", "JMPInd",
                     "ADCIndY", "STAAbsY", "STAAbsX", "LDAIndY",
                     "DECZero", "CMPIndY", "INCZero", "SBCIndY"} -> 5
      [] opcode \in {"ORAIndX", "ASLAbs", "ASLZeroX", "JSRAbs",
                     "ANDIndX", "ROLAbs", "ROLZeroX", "RTIImp",
                     "EORIndX", "LSRAbs", "LSRZeroX", "RTSImp",
                     "ADCIndX", "RORAbs", "RORZeroX", "STAIndX",
                     "STAIndY", "LDAIndX", "CMPIndX", "DECAbs",
                     "DECZeroX", "SBCIndX", "INCAbs", "INCZeroX"} -> 6
      [] opcode \in {"BRKImp", "ASLAbsX", "ROLAbsX", "LSRAbsX",
                     "RORAbsX", "DECAbsX", "INCAbsX"} -> 7

\* the operation of the opcode's arm of Instruction::execute
Mnemonic(opcode) ==
    CASE opcode \in {"ADCIndX", "ADCZero", "ADCImm", "ADCAbs",
                     "ADCIndY", "ADCZeroX", "ADCAbsY", "ADCAbsX"} -> "ADC"
      [] opcode \in {"ANDIndX", "ANDZero", "ANDImm", "ANDAbs",
                     "ANDIndY", "ANDZeroX", "ANDAbsY", "ANDAbsX"} -> "AND"
      [] opcode \in {"ASLZero", "ASLAcc", "ASLAbs", "ASLZeroX",
                     "ASLAbsX"} -> "ASL"
      [] opcode \in {"BCCRel"} -> "BCC"
      [] opcode \in {"BCSRel"} -> "BCS"
      [] opcode \in {"BEQRel"} -> "BEQ"
      [] opcode \in {"BITZero", "BITAbs"} -> "BIT"
      [] opcode \in {"BMIRel"} -> "BMI"
      [] opcode \in {"BNERel"} -> "BNE"
      [] opcode \in {"BPLRel"} -> "BPL"
      [] opcode \in {"BRKImp"} -> "BRK"
      [] opcode \in {"BVCRel"} -> "BVC"
      [] opcode \in {"BVSRel"} -> "BVS"
      [] opcode \in {"CLCImp"} -> "CLC"
      [] opcode \in {"CLDImp"} -> "CLD"
      [] opcode \in {"CLIImp"} -> "CLI"
      [] opcode \in {"CLVImp"} -> "CLV"
      [] opcode \in {"CMPIndX", "CMPZero", "CMPImm", "CMPAbs",
                     "CMPIndY", "CMPZeroX", "CMPAbsY", "CMPAbsX"} -> "CMP"
      [] opcode \in {"CPXImm", "CPXZero", "CPXAbs"} -> "CPX"
      [] opcode \in {"CPYImm", "CPYZero", "CPYAbs"} -> "CPY"
      [] opcode \in {"DECZero", "DECAbs", "DECZeroX", "DECAbsX"} -> "DEC"
      [] opcode \in {"DEXImp"} -> "DEX"
      [] opcode \in {"DEYImp"} -> "DEY"
      [] opcode \in {"EORIndX", "EORZero", "EORImm", "EORAbs",
                     "EORIndY", "EORZeroX", "EORAbsY", "EORAbsX"} -> "EOR"
      [] opcode \in {"INCZero", "INCAbs", "INCZeroX", "INCAbsX"} -> "INC"
      [] opcode \in {"INXImp"} -> "INX"
      [] opcode \in {"INYImp"} -> "INY"
      [] opcode \in {"JMPAbs", "JMPInd"} -> "JMP"
      [] opcode \in {"JSRAbs"} -> "JSR"
      [] opcode \in {"LDAIndX", "LDAZero", "LDAImm", "LDAAbs",
                     "LDAIndY", "LDAZeroX", "LDAAbsY", "LDAAbsX"} -> "LDA"
      [] opcode \in {"LDXImm", "LDXZero", "LDXAbs", "LDXZeroY",
                     "LDXAbsY"} -> "LDX"
      [] opcode \in {"LDYImm", "LDYZero", "LDYAbs", "LDYZeroX",
                     "LDYAbsX"} -> "LDY"
      [] opcode \in {"LSRZero", "LSRAcc", "LSRAbs", "LSRZeroX",
                     "LSRAbsX"} -> "LSR"
      [] opcode \in {"NOPImp"} -> "NOP"
      [] opcode \in {"ORAIndX", "ORAZero", "ORAImm", "ORAAbs",
                     "ORAIndY", "ORAZeroX", "ORAAbsY", "ORAAbsX"} -> "ORA"
      [] opcode \in {"PHAImp"} -> "PHA"
      [] opcode \in {"PHPImp"} -> "PHP"
      [] opcode \in {"PLAImp"} -> "PLA"
      [] opcode \in {"PLPImp"} -> "PLP"
      [] opcode \in {"ROLZero", "ROLAcc", "ROLAbs", "ROLZeroX",
                     "ROLAbsX"} -> "ROL"
      [] opcode \in {"RORZero", "RORAcc", "RORAbs", "RORZeroX",
                     "RORAbsX"} -> "ROR"
      [] opcode \in {"RTIImp"} -> "RTI"
      [] opcode \in {"RTSImp"} -> "RTS"
      [] opcode \in {"SBCIndX", "SBCZero", "SBCImm", "SBCAbs",
                     "SBCIndY", "SBCZeroX", "SBCAbsY", "SBCAbsX"} -> "SBC"
      [] opcode \in {"SECImp"} -> "SEC"
      [] opcode \in {"SEDImp"} -> "SED"
      [] opcode \in {"SEIImp"} -> "SEI"
      [] opcode \in {"STAIndX", "STAZero", "STAAbs", "STAIndY",
                     "STAZeroX", "STAAbsY", "STAAbsX"} -> "STA"
      [] opcode \in {"STXZero", "STXAbs", "STXZeroY"} -> "STX"
      [] opcode \in {"STYZero", "STYAbs", "STYZeroX"} -> "STY"
      [] opcode \in {"TAXImp"} -> "TAX"
      [] opcode \in {"TAYImp"} -> "TAY"
      [] opcode \in {"TSXImp"} -> "TSX"
      [] opcode \in {"TXAImp"} -> "TXA"
      [] opcode \in {"TXSImp"} -> "TXS"
      [] opcode \in {"TYAImp"} -> "TYA"

\* the addressing-mode resolver the opcode's arm of Instruction::execute
\* calls
AddrMode(opcode) ==
    CASE opcode \in {"ORAAbs", "ASLAbs", "JSRAbs", "BITAbs",
                     "ANDAbs", "ROLAbs", "JMPAbs", "EORAbs",
                     "LSRAbs", "ADCAbs", "RORAbs", "STYAbs",
                     "STAAbs", "STXAbs", "LDYAbs", "LDAAbs",
                     "LDXAbs", "CPYAbs", "CMPAbs", "DECAbs",
                     "CPXAbs", "SBCAbs", "INCAbs"} -> "Abs"
      [] opcode \in {"ORAAbsX", "ASLAbsX", "ANDAbsX", "ROLAbsX",
                     "EORAbsX", "LSRAbsX", "ADCAbsX", "RORAbsX",
                     "STAAbsX", "LDYAbsX", "LDAAbsX", "CMPAbsX",
                     "DECAbsX", "SBCAbsX", "INCAbsX"} -> "AbsX"
      [] opcode \in {"ORAAbsY", "ANDAbsY", "EORAbsY", "ADCAbsY",
                     "STAAbsY", "LDAAbsY", "LDXAbsY", "CMPAbsY",
                     "SBCAbsY"} -> "AbsY"
      [] opcode \in {"ASLAcc", "ROLAcc", "LSRAcc", "RORAcc"} -> "Acc"
      [] opcode \in {"ORAImm", "ANDImm", "EORImm", "ADCImm",
                     "LDYImm", "LDXImm", "LDAImm", "CPYImm",
                     "CMPImm", "CPXImm", "SBCImm"} -> "Imm"
      [] opcode \in {"BRKImp", "PHPImp", "CLCImp", "PLPImp",
                     "SECImp", "RTIImp", "PHAImp", "CLIImp",
                     "RTSImp", "PLAImp", "SEIImp", "DEYImp",
                     "TXAImp", "TYAImp", "TXSImp", "TAYImp",
                     "TAXImp", "CLVImp", "TSXImp", "INYImp",
                     "DEXImp", "CLDImp", "INXImp", "NOPImp",
                     "SEDImp"} -> "Imp"
      [] opcode \in {"JMPInd"} -> "Ind"
      [] opcode \in {"ORAIndX", "ANDIndX", "EORIndX", "ADCIndX",
                     "STAIndX", "LDAIndX", "CMPIndX", "SBCIndX"} -> "IndX"
      [] opcode \in {"ORAIndY", "ANDIndY", "EORIndY", "ADCIndY",
                     "STAIndY", "LDAIndY", "CMPIndY", "SBCIndY"} -> "IndY"
      [] opcode \in {"BPLRel", "BMIRel", "BVCRel", "BVSRel",
                     "BCCRel", "BCSRel", "BNERel", "BEQRel"} -> "Rel"
      [] opcode \in {"ORAZero", "ASLZero", "BITZero", "ANDZero",
                     "ROLZero", "EORZero", "LSRZero", "ADCZero",
                     "RORZero", "STYZero", "STAZero", "STXZero",
                     "LDYZero", "LDAZero", "LDXZero", "CPYZero",
                     "CMPZero", "DECZero", "CPXZero", "SBCZero",
                     "INCZero"} -> "Zero"
      [] opcode \in {"ORAZeroX", "ASLZeroX", "ANDZeroX", "ROLZeroX",
                     "EORZeroX", "LSRZeroX", "ADCZeroX", "RORZeroX",
                     "STYZeroX", "STAZeroX", "LDYZeroX", "LDAZeroX",
                     "CMPZeroX", "DECZeroX", "SBCZeroX", "INCZeroX"} -> "ZeroX"
      [] opcode \in {"STXZeroY", "LDXZeroY"} -> "ZeroY"

\* decode_opcode: "invalid" stands for the panic on a byte that is not a
\* discriminant of Opcode
decode_opcode(opcode) ==
    IF opcode \in DOMAIN OpcodeEnum THEN OpcodeEnum[opcode] ELSE "invalid"

----------------------------------------------------------------------------
(* src/nes/instruction.rs                                                  *)

\* An Instruction(u8, u8, u8) is the tuple <<opcode byte, arg 1, arg 2>>.
\* Where an operator below takes the result of a bus access as a parameter
\* (r, r0, r1, s, ...), it is the rest of the function after that access.

\* Instruction::parse.  The operand bytes are fetched at pc + 1 and pc + 2 in
\* usize, so past $FFFF the fetch reaches the panic of Memory::map.  ok = FALSE
\* stands for that panic and for the one of decode_opcode.  r is the last
\* read that parse made.
Parsed(b0, b1, b2, r) ==
    [ins |-> <<b0, b1, b2>>, mem |-> r.mem, ok |-> r.ok]

ParseFailed(b0, r) == [ins |-> <<b0, 0, 0>>, mem |-> r.mem, ok |-> FALSE]

\* after the read r2 of the second operand byte
ParseSecondArg(b0, b1, r2) == Parsed(b0, b1, r2.val, r2)

\* after the read r1 of the first operand byte
ParseFirstArg(pc, b0, len, r1) ==
    IF len = 2 THEN Parsed(b0, r1.val, 0, r1)
    ELSE IF ~r1.ok THEN ParseFailed(b0, r1)
    ELSE ParseSecondArg(b0, r1.val, read_u8(r1.mem, pc + 2))

\* after the read r0 of the opcode byte
ParseOpcode(pc, r0) ==
    IF ~r0.ok \/ decode_opcode(r0.val) = "invalid"
        THEN ParseFailed(r0.val, r0)
    ELSE IF opcode_len(decode_opcode(r0.val)) = 1
        THEN Parsed(r0.val, 0, 0, r0)
    ELSE ParseFirstArg(pc, r0.val, opcode_len(decode_opcode(r0.val)),
                       read_u8(r0.mem, pc + 1))

parse(pc, m) == ParseOpcode(pc, read_u8(m, pc))

arg_u8(ins)  == ins[2]
arg_u16(ins) == le_u16(ins[2], ins[3])

immediate(ins)      == arg_u8(ins)
zero_page(ins)      == arg_u8(ins)
zero_page_x(ins, c) == wrapping_add8(arg_u8(ins), c.x)
zero_page_y(ins, c) == wrapping_add8(arg_u8(ins), c.y)
relative(ins)       == as_i8(arg_u8(ins))
absolute(ins)       == arg_u16(ins)

\* A resolver yields the effective address, the page cross it saw, and the
\* memory after the reads it made.
Resolved(addr, cross, m) == [addr |-> addr, page_cross |-> cross, mem |-> m]

absolute_x(ins, c, m) ==
    LET base_addr == arg_u16(ins)
        addr      == wrapping_add16(base_addr, c.x)
    IN  Resolved(addr, page_cross(base_addr, addr), m)

absolute_y(ins, c, m) ==
    LET base_addr == arg_u16(ins)
        addr      == wrapping_add16(base_addr, c.y)
    IN  Resolved(addr, page_cross(base_addr, addr), m)

\* the address that the read r of a pointer returned
Pointee(r, cross) == Resolved(r.val, cross, r.mem)

\* the address that the read r of a pointer returned, plus Y
PointeePlusY(r, y) ==
    LET base_addr == r.val
        addr      == wrapping_add16(base_addr, y)
    IN  Resolved(addr, page_cross(base_addr, addr), r.mem)

indirect(ins, m) == Pointee(read_u16_wrapped_msb(m, arg_u16(ins)), "Same")

indirect_x(ins, c, m) ==
    LET arg  == arg_u8(ins)
        addr == wrapping_add8(arg, c.x)
    IN  Pointee(read_u16_wrapped_msb(m, addr), page_cross(arg, addr))

indirect_y(ins, c, m) ==
    PointeePlusY(read_u16_wrapped_msb(m, arg_u8(ins)), c.y)

\* the effective address an arm obtains from the resolver of its mode
Resolve(mode, ins, c, m) ==
    CASE mode = "Zero"  -> Resolved(zero_page(ins), "Same", m)
      [] mode = "ZeroX" -> Resolved(zero_page_x(ins, c), "Same", m)
      [] mode = "ZeroY" -> Resolved(zero_page_y(ins, c), "Same", m)
      [] mode = "Abs"   -> Resolved(absolute(ins), "Same", m)
      [] mode = "AbsX"  -> absolute_x(ins, c, m)
      [] mode = "AbsY"  -> absolute_y(ins, c, m)
      [] mode = "IndX"  -> indirect_x(ins, c, m)
      [] mode = "IndY"  -> indirect_y(ins, c, m)

\* An operand is the byte an arm works on, with the page cross of its
\* address and the memory after the read r.
Operand(r, cross) == [val |-> r.val, page_cross |-> cross, mem |-> r.mem]

\* memory.read_u8(addr) at the resolved address a
Dereference(a) == Operand(read_u8(a.mem, a.addr), a.page_cross)

\* the operand byte of a reading arm: immediate(), or a read_u8 at the
\* resolved address (dereference_zero_page .. dereference_indirect_x, or
\* the resolver followed by memory.read_u8(addr))
ReadOperand(mode, ins, c, m) ==
    IF mode = "Imm"
        THEN [val |-> immediate(ins), page_cross |-> "Same", mem |-> m]
    ELSE Dereference(Resolve(mode, ins, c, m))

\* results of an arm: the CPU and memory it leaves, and ok = FALSE when it
\* panicked at that point
Done(c, m)     == [cpu |-> c, mem |-> m, ok |-> TRUE]
Panicked(c, m) == [cpu |-> c, mem |-> m, ok |-> FALSE]

\* cpu.pc += len
advance_pc(c, m, len, oc) ==
    IF c.pc + len <= 65535 THEN Done([c EXCEPT !.pc = c.pc + len], m)
    ELSE IF oc THEN Panicked(c, m)
    ELSE Done([c EXCEPT !.pc = (c.pc + len) % 65536], m)

add_cycles(c, n) == [c EXCEPT !.cycles = c.cycles + n]

\* the opcodes whose arm adds a cycle when page_cross != PageCross::Same
PageCrossPenalty ==
    {"ADCAbsX", "ADCAbsY", "ADCIndY", "ANDAbsX", "ANDAbsY", "ANDIndY",
     "CMPAbsX", "CMPAbsY", "CMPIndY", "EORAbsX", "EORAbsY", "EORIndY",
     "LDAAbsX", "LDAAbsY", "LDAIndY", "LDXAbsY", "LDYAbsX", "ORAAbsX",
     "ORAAbsY", "ORAIndY", "SBCAbsX", "SBCAbsY", "SBCIndY"}

\* Finish without the page-cross cycle
Finish_same_page_cycles(opcode, c, m, cross, oc) ==
    advance_pc(add_cycles(c, BaseCycles(opcode)), m, opcode_len(opcode), oc)

\* the common tail of an arm: cpu.cycles += n (plus the page-cross cycle) and
\* cpu.pc += len
Finish(opcode, c, m, cross, oc) ==
    LET extra == IF opcode \in PageCrossPenalty /\ cross # "Same"
                     THEN 1 ELSE 0
    IN  advance_pc(add_cycles(c, BaseCycles(opcode) + extra), m,
                   opcode_len(opcode), oc)

\* adc without the complement of (A ^ M): V as SBC computes it
adc_overflow_as_sbc(c, arg) ==
    LET operand  == IF flag_set(c, CARRY_FLAG)
                        THEN wrapping_add8(arg, 1) ELSE arg
        result   == (c.a + operand) % 256
        overflow == c.a + operand > 255
        v        == BitAnd(BitAnd(BitXor(c.a, arg),
                                  BitXor(c.a, result)), 128) = 128
        c1       == IF v THEN set_flag(c, OVERFLOW_FLAG)
                    ELSE unset_flag(c, OVERFLOW_FLAG)
        c2       == [c1 EXCEPT !.a = result]
    IN  toggle_zn(toggle_carry_flag(c2, overflow), result)

\* ADC arms
adc(c, arg) ==
    LET operand  == IF flag_set(c, CARRY_FLAG)
                        THEN wrapping_add8(arg, 1) ELSE arg
        result   == (c.a + operand) % 256
        overflow == c.a + operand > 255
        v        == BitAnd(BitAnd(BitNot8(BitXor(c.a, arg)),
                                  BitXor(c.a, result)), 128) = 128
        c1       == IF v THEN set_flag(c, OVERFLOW_FLAG)
                    ELSE unset_flag(c, OVERFLOW_FLAG)
        c2       == [c1 EXCEPT !.a = result]
    IN  toggle_zn(toggle_carry_flag(c2, overflow), result)

\* SBC arms
sbc(c, arg) ==
    LET operand  == IF ~flag_set(c, CARRY_FLAG)
                        THEN wrapping_add8(arg, 1) ELSE arg
        result   == (c.a - operand + 256) % 256
        overflow == c.a < operand
        v        == BitAnd(BitAnd(BitXor(c.a, arg),
                                  BitXor(c.a, result)), 128) = 128
        c1       == IF v THEN set_flag(c, OVERFLOW_FLAG)
                    ELSE unset_flag(c, OVERFLOW_FLAG)
        c2       == [c1 EXCEPT !.a = result]
    IN  toggle_zn(toggle_carry_flag(c2, ~overflow), result)

\* CMP / CPX / CPY arms, reg the register compared
compare(c, reg, arg) ==
    LET result == wrapping_sub8(reg, arg)
        c1     == IF reg >= arg THEN set_flag(c, CARRY_FLAG)
                  ELSE unset_flag(c, CARRY_FLAG)
        c2     == IF result = 0 THEN set_flag(c1, ZERO_FLAG)
                  ELSE unset_flag(c1, ZERO_FLAG)
    IN  toggle_negative_flag(c2, result)

\* bit without the mask: N and V left as they were
bit_zero_flag_only(c, byte) == toggle_zero_flag(c, BitAnd(byte, c.a))

\* BIT arms
bit(c, byte) ==
    LET result == BitAnd(byte, c.a)
        c1     == toggle_zero_flag(c, result)
        mask   == 192
    IN  [c1 EXCEPT !.p = BitOr(BitAnd(c1.p, BitNot8(mask)),
                               BitAnd(byte, mask))]

\* what a reading arm does with its operand byte
ReadEffect(mn, c, v) ==
    CASE mn = "AND" -> LET r == BitAnd(c.a, v)
                       IN  toggle_zn([c EXCEPT !.a = r], r)
      [] mn = "EOR" -> LET r == BitXor(c.a, v)
                       IN  toggle_zn([c EXCEPT !.a = r], r)
      [] mn = "ORA" -> LET r == BitOr(c.a, v)
                       IN  toggle_zn([c EXCEPT !.a = r], r)
      [] mn = "ADC" -> adc(c, v)
      [] mn = "SBC" -> sbc(c, v)
      [] mn = "CMP" -> compare(c, c.a, v)
      [] mn = "CPX" -> compare(c, c.x, v)
      [] mn = "CPY" -> compare(c, c.y, v)
      [] mn = "BIT" -> bit(c, v)
      [] mn = "LDA" -> toggle_zn([c EXCEPT !.a = v], v)
      [] mn = "LDX" -> toggle_zn([c EXCEPT !.x = v], v)
      [] mn = "LDY" -> toggle_zn([c EXCEPT !.y = v], v)

ReadMnemonics ==
    {"AND", "EOR", "ORA", "ADC", "SBC", "CMP", "CPX", "CPY", "BIT",
     "LDA", "LDX", "LDY"}

\* the result byte and the carry of a shift, rotate, increment or decrement
\* of the byte v; INC and DEC leave the carry flag alone
Modify(mn, c, v) ==
    CASE mn = "INC" -> [result |-> wrapping_add8(v, 1), sets_carry |-> FALSE,
                        carry |-> FALSE]
      [] mn = "DEC" -> [result |-> wrapping_sub8(v, 1), sets_carry |-> FALSE,
                        carry |-> FALSE]
      [] mn = "ASL" -> [result |-> (v * 2) % 256, sets_carry |-> TRUE,
                        carry |-> BitAnd(v, 128) = 128]
      [] mn = "LSR" -> [result |-> v \div 2, sets_carry |-> TRUE,
                        carry |-> BitAnd(v, 1) = 1]
      [] mn = "ROL" -> [result |-> BitOr((v * 2) % 256, BitAnd(c.p, 1)),
                        sets_carry |-> TRUE, carry |-> BitAnd(v, 128) = 128]
      [] mn = "ROR" -> [result |-> BitOr(v \div 2, (c.p * 128) % 256),
                        sets_carry |-> TRUE, carry |-> BitAnd(v, 1) = 1]

ModifyFlags(c, r) ==
    toggle_zn(IF r.sets_carry THEN toggle_carry_flag(c, r.carry) ELSE c,
              r.result)

\* AND, EOR, ORA, ADC, SBC, CMP, CPX, CPY, BIT, LDA, LDX, LDY arms, o the
\* operand
ReadArmOn(opcode, c, o, oc) ==
    Finish(opcode, ReadEffect(Mnemonic(opcode), c, o.val), o.mem,
           o.page_cross, oc)

ReadArm(opcode, ins, c, m, oc) ==
    ReadArmOn(opcode, c, ReadOperand(AddrMode(opcode), ins, c, m), oc)

\* the register a store arm writes
StoredRegister(mn, c) ==
    CASE mn = "STA" -> c.a [] mn = "STX" -> c.x [] mn = "STY" -> c.y

\* STA, STX, STY arms, a the resolved address
StoreArmAt(opcode, c, a, oc) ==
    Finish(opcode, c,
           write_u8(a.mem, a.addr, StoredRegister(Mnemonic(opcode), c)).mem,
           "Same", oc)

StoreArm(opcode, ins, c, m, oc) ==
    StoreArmAt(opcode, c, Resolve(AddrMode(opcode), ins, c, m), oc)

\* INC, DEC, ASL, LSR, ROL, ROR arms on memory: the write of the result r
\* at addr, the flags and the tail
ModifyArmWrite(opcode, c, m, addr, r, oc) ==
    Finish(opcode, ModifyFlags(c, r), write_u8(m, addr, r.result).mem,
           "Same", oc)

\* rd the read of the byte at addr
ModifyArmRead(opcode, c, addr, rd, oc) ==
    ModifyArmWrite(opcode, c, rd.mem, addr,
                   Modify(Mnemonic(opcode), c, rd.val), oc)

\* a the resolved address
ModifyArmAt(opcode, c, a, oc) ==
    ModifyArmRead(opcode, c, a.addr, read_u8(a.mem, a.addr), oc)

ModifyArm(opcode, ins, c, m, oc) ==
    ModifyArmAt(opcode, c, Resolve(AddrMode(opcode), ins, c, m), oc)

\* ASLAcc, LSRAcc, ROLAcc, RORAcc arms
AccumulatorArm(opcode, ins, c, m, oc) ==
    LET r == Modify(Mnemonic(opcode), c, c.a)
    IN  Finish(opcode, [ModifyFlags(c, r) EXCEPT !.a = r.result], m,
               "Same", oc)

\* CLC .. SEI, TAX .. TYA, INX .. DEY, NOP arms
ImpliedEffect(opcode, c) ==
    CASE opcode = "CLCImp" -> unset_flag(c, CARRY_FLAG)
      [] opcode = "CLDImp" -> unset_flag(c, DECIMAL_MODE)
      [] opcode = "CLIImp" -> unset_flag(c, INTERRUPT_DISABLE)
      [] opcode = "CLVImp" -> unset_flag(c, OVERFLOW_FLAG)
      [] opcode = "SECImp" -> set_flag(c, CARRY_FLAG)
      [] opcode = "SEDImp" -> set_flag(c, DECIMAL_MODE)
      [] opcode = "SEIImp" -> set_flag(c, INTERRUPT_DISABLE)
      [] opcode = "INXImp" -> LET r == wrapping_add8(c.x, 1)
                              IN  toggle_zn([c EXCEPT !.x = r], r)
      [] opcode = "INYImp" -> LET r == wrapping_add8(c.y, 1)
                              IN  toggle_zn([c EXCEPT !.y = r], r)
      [] opcode = "DEXImp" -> LET r == wrapping_sub8(c.x, 1)
                              IN  toggle_zn([c EXCEPT !.x = r], r)
      [] opcode = "DEYImp" -> LET r == wrapping_sub8(c.y, 1)
                              IN  toggle_zn([c EXCEPT !.y = r], r)
      [] opcode = "TAXImp" -> toggle_zn([c EXCEPT !.x = c.a], c.a)
      [] opcode = "TAYImp" -> toggle_zn([c EXCEPT !.y = c.a], c.a)
      [] opcode = "TSXImp" -> toggle_zn([c EXCEPT !.x = c.sp], c.sp)
      [] opcode = "TXAImp" -> toggle_zn([c EXCEPT !.a = c.x], c.x)
      [] opcode = "TXSImp" -> [c EXCEPT !.sp = c.x]
      [] opcode = "TYAImp" -> toggle_zn([c EXCEPT !.a = c.y], c.y)
      [] opcode = "NOPImp" -> c

ImpliedArm(opcode, ins, c, m, oc) ==
    Finish(opcode, ImpliedEffect(opcode, c), m, "Same", oc)

\* the condition each branch arm tests
BranchTaken(opcode, c) ==
    CASE opcode = "BCCRel" -> ~flag_set(c, CARRY_FLAG)
      [] opcode = "BCSRel" -> flag_set(c, CARRY_FLAG)
      [] opcode = "BEQRel" -> flag_set(c, ZERO_FLAG)
      [] opcode = "BMIRel" -> flag_set(c, NEGATIVE_FLAG)
      [] opcode = "BNERel" -> ~flag_set(c, ZERO_FLAG)
      [] opcode = "BPLRel" -> ~flag_set(c, NEGATIVE_FLAG)
      [] opcode = "BVCRel" -> ~flag_set(c, OVERFLOW_FLAG)
      [] opcode = "BVSRel" -> flag_set(c, OVERFLOW_FLAG)

\* BCC, BCS, BEQ, BMI, BNE, BPL, BVC, BVS arms.  The page test compares
\* old_pc + len with cpu.pc as add_relative left it, before cpu.pc += len.
BranchArm(opcode, ins, c, m, oc) ==
    LET len == opcode_len(opcode)
    IN  IF BranchTaken(opcode, c)
            THEN LET old_pc == c.pc
                     t      == add_relative(c.pc, relative(ins), oc)
                     cross  == page_cross(old_pc + len, t.val)
                     c1     == add_cycles([c EXCEPT !.pc = t.val], 1)
                     c2     == IF cross # "Same" THEN add_cycles(c1, 2)
                               ELSE c1
                 IN  IF ~t.ok THEN Panicked(c, m)
                     ELSE advance_pc(add_cycles(c2, 2), m, len, oc)
        ELSE advance_pc(add_cycles(c, 2), m, len, oc)

\* cpu.pc = pc; cpu.cycles += n, after the stack or bus access s
Jump(s, pc, n) == Done(add_cycles([s.cpu EXCEPT !.pc = pc], n), s.mem)

JMPAbsArm(ins, c, m) ==
    Done(add_cycles([c EXCEPT !.pc = absolute(ins)], 3), m)

\* r the read_u16_wrapped_msb of the pointer
JMPIndArmTo(c, r) == Done(add_cycles([c EXCEPT !.pc = r.val], 5), r.mem)

JMPIndArm(ins, c, m) ==
    JMPIndArmTo(c, read_u16_wrapped_msb(m, arg_u16(ins)))

\* JSRAbsArm pushing pc + len, the address of the next instruction
JSRAbsArm_push_next(ins, c, m, oc) ==
    LET len == opcode_len("JSRAbs")
    IN  IF c.pc + len > 65535 /\ oc THEN Panicked(c, m)
        ELSE Jump(stack_push_u16(c, m, (c.pc + len) % 65536),
                  absolute(ins), 6)

\* JSR pushes pc + len - 1, evaluated left to right in u16
JSRAbsArm(ins, c, m, oc) ==
    LET len == opcode_len("JSRAbs")
    IN  IF c.pc + len > 65535 /\ oc THEN Panicked(c, m)
        ELSE Jump(stack_push_u16(c, m, (c.pc + len - 1) % 65536),
                  absolute(ins), 6)

\* RTS sets pc to the popped word + len; s the stack_pop_u16
RTSImpArmTo(s, len, oc) ==
    IF s.val + len > 65535 /\ oc THEN Panicked(s.cpu, s.mem)
    ELSE Jump(s, (s.val + len) % 65536, 6)

RTSImpArm(c, m, oc) ==
    RTSImpArmTo(stack_pop_u16(c, m), opcode_len("RTSImp"), oc)

\* RTI: s2 the stack_pop_u16 of the program counter
RTIImpArmTo(s2) == Jump(s2, s2.val, 6)

\* RTI: s1 the stack_pop_u8 of the flags, old_p the flags before it
RTIImpArmFlags(old_p, s1) ==
    LET result == BitOr(BitAnd(s1.val, 239), BitAnd(old_p, 32))
    IN  RTIImpArmTo(stack_pop_u16([s1.cpu EXCEPT !.p = result], s1.mem))

RTIImpArm(c, m) == RTIImpArmFlags(c.p, stack_pop_u8(c, m))

\* BRK: s2 the stack_push_u8 of the flags
BRKImpArmEnd(s2, pc) ==
    Done([add_cycles(set_flag(s2.cpu, BREAK_COMMAND), 7) EXCEPT !.pc = pc],
         s2.mem)

\* BRK: s1 the stack_push_u16 of the program counter
BRKImpArmFlags(s1, p, pc) ==
    BRKImpArmEnd(stack_push_u8(s1.cpu, s1.mem, p), pc)

BRKImpArm(c, m) ==
    LET p  == c.p
        pc == wrapping_add16(c.pc, opcode_len("BRKImp"))
    IN  BRKImpArmFlags(stack_push_u16(c, m, pc), p, pc)

\* the tail of PHA and PHP, s the stack_push_u8
Pushed(opcode, s, oc) == Finish(opcode, s.cpu, s.mem, "Same", oc)

PHAImpArm(c, m, oc) == Pushed("PHAImp", stack_push_u8(c, m, c.a), oc)

\* PHPImpArm pushing the accumulator
PHPImpArm_pushing_a(c, m, oc) == Pushed("PHPImp", stack_push_u8(c, m, c.a), oc)

PHPImpArm(c, m, oc) ==
    LET p == BitOr(c.p, 16)
    IN  Pushed("PHPImp", stack_push_u8(c, m, p), oc)

\* PLA: s the stack_pop_u8
PLAImpArmTo(s, oc) ==
    Finish("PLAImp", toggle_zn([s.cpu EXCEPT !.a = s.val], s.val),
           s.mem, "Same", oc)

PLAImpArm(c, m, oc) == PLAImpArmTo(stack_pop_u8(c, m), oc)

\* PLPImpArmTo taking every bit but B from the popped byte
PLPImpArmTo_popped_bit5(old_flags, s, oc) ==
    LET p == BitAnd(s.val, 239)
    IN  Finish("PLPImp", [s.cpu EXCEPT !.p = p], s.mem, "Same", oc)

\* PLP: s the stack_pop_u8
PLPImpArmTo(old_flags, s, oc) ==
    LET p == BitOr(BitAnd(s.val, 239), BitAnd(old_flags, 32))
    IN  Finish("PLPImp", [s.cpu EXCEPT !.p = p], s.mem, "Same", oc)

PLPImpArm(c, m, oc) == PLPImpArmTo(c.p, stack_pop_u8(c, m), oc)

\* cpu.poll_irq(memory), the call that closes Instruction::execute
poll_irq(c, m) == Done(c, m)

\* the arm of the opcode
Arm(opcode, ins, c, m, oc) ==
    CASE AddrMode(opcode) = "Rel" -> BranchArm(opcode, ins, c, m, oc)
      [] opcode = "JMPAbs" -> JMPAbsArm(ins, c, m)
      [] opcode = "JMPInd" -> JMPIndArm(ins, c, m)
      [] opcode = "JSRAbs" -> JSRAbsArm(ins, c, m, oc)
      [] opcode = "RTSImp" -> RTSImpArm(c, m, oc)
      [] opcode = "RTIImp" -> RTIImpArm(c, m)
      [] opcode = "BRKImp" -> BRKImpArm(c, m)
      [] opcode = "PHAImp" -> PHAImpArm(c, m, oc)
      [] opcode = "PHPImp" -> PHPImpArm(c, m, oc)
      [] opcode = "PLAImp" -> PLAImpArm(c, m, oc)
      [] opcode = "PLPImp" -> PLPImpArm(c, m, oc)
      [] AddrMode(opcode) = "Acc" -> AccumulatorArm(opcode, ins, c, m, oc)
      [] Mnemonic(opcode) \in ReadMnemonics ->
             ReadArm(opcode, ins, c, m, oc)
      [] Mnemonic(opcode) \in {"STA", "STX", "STY"} ->
             StoreArm(opcode, ins, c, m, oc)
      [] Mnemonic(opcode) \in {"INC", "DEC", "ASL", "LSR", "ROL", "ROR"} ->
             ModifyArm(opcode, ins, c, m, oc)
      [] OTHER -> ImpliedArm(opcode, ins, c, m, oc)

\* the end of Instruction::execute, r the result of the arm
PollAfter(r) == IF r.ok THEN poll_irq(r.cpu, r.mem) ELSE r

\* Instruction::execute: the arm of the opcode, then poll_irq
execute(ins, c, m, oc) == PollAfter(Arm(decode_opcode(ins[1]), ins, c, m, oc))

----------------------------------------------------------------------------
(* src/nes/cpu.rs: CPU::execute                                            *)

\* the end of CPU::execute adding one dot for each cycle
Account_one_dot_per_cycle(ins, e) ==
    IF ~e.ok
        THEN [cpu |-> e.cpu, mem |-> e.mem, ok |-> FALSE, ins |-> ins,
              cycles |-> 0]
    ELSE [cpu |-> [e.cpu EXCEPT
                      !.ppu_dots = (e.cpu.ppu_dots + e.cpu.cycles) % 341,
                      !.cycles = 0],
          mem |-> e.mem, ok |-> TRUE, ins |-> ins,
          cycles |-> e.cpu.cycles]

\* Account leaving the cycles of the instruction in cpu.cycles
Account_keeping_cycles(ins, e) ==
    IF ~e.ok
        THEN [cpu |-> e.cpu, mem |-> e.mem, ok |-> FALSE, ins |-> ins,
              cycles |-> 0]
    ELSE [cpu |-> [e.cpu EXCEPT
                      !.ppu_dots = (e.cpu.ppu_dots + e.cpu.cycles * 3) % 341],
          mem |-> e.mem, ok |-> TRUE, ins |-> ins,
          cycles |-> e.cpu.cycles]

\* the end of CPU::execute, e the result of Instruction::execute: fold the
\* cycles into ppu_dots, reset the cycle count and return it
Account(ins, e) ==
    IF ~e.ok
        THEN [cpu |-> e.cpu, mem |-> e.mem, ok |-> FALSE, ins |-> ins,
              cycles |-> 0]
    ELSE [cpu |-> [e.cpu EXCEPT
                      !.ppu_dots = (e.cpu.ppu_dots + e.cpu.cycles * 3) % 341,
                      !.cycles = 0],
          mem |-> e.mem, ok |-> TRUE, ins |-> ins,
          cycles |-> e.cpu.cycles]

\* f the result of Instruction::parse
ExecuteParsed(c, f, oc) ==
    IF ~f.ok
        THEN [cpu |-> c, mem |-> f.mem, ok |-> FALSE, ins |-> f.ins,
              cycles |-> 0]
    ELSE Account(f.ins, execute(f.ins, c, f.mem, oc))

\* CPU::execute with neither verbose logging nor an execution log: parse the
\* instruction at pc, execute it, account for its cycles
CPUExecute(c, m, oc) == ExecuteParsed(c, parse(c.pc, m), oc)

----------------------------------------------------------------------------
(* src/nes/ppu.rs: the registers of the PPU and PPU::step.  The pattern    *)
(* tables, name tables, palettes and sprite RAM are left out: step does    *)
(* not touch them.  A handler takes and returns s, the PPU and the memory  *)
(* with ok = FALSE once a panic has been raised; the handlers after a      *)
(* panic do not run.                                                       *)

PPUCTRL   == 0
PPUMASK   == 1
PPUSTATUS == 2
OAMADDR   == 3
OAMDATA   == 4
PPUSCROLL == 5
PPUADDR   == 6
PPUDATA   == 7
OAMDMA    == 20

INITIAL_PPUCTRL   == 0
INITIAL_PPUMASK   == 0
INITIAL_PPUSTATUS == 160
INITIAL_OAMADDR   == 0
INITIAL_OAMDATA   == 0
INITIAL_PPUSCROLL == 0
INITIAL_PPUADDR   == 0
INITIAL_PPUDATA   == 0

PPUNew ==
    [ppu_ctrl |-> INITIAL_PPUCTRL, ppu_mask |-> INITIAL_PPUMASK,
     ppu_status |-> INITIAL_PPUSTATUS, oam_address |-> INITIAL_OAMADDR,
     oam_data |-> INITIAL_OAMDATA, ppu_scroll |-> INITIAL_PPUSCROLL,
     ppu_addr |-> INITIAL_PPUADDR, ppu_data |-> INITIAL_PPUDATA]

\* the guard of handle_ppu_ctrl, handle_ppu_mask, handle_oam_addr,
\* handle_oam_data and handle_ppu_data, as written: TRUE when the handler
\* returns at once
NotWrittenOrNotWrittenTwice(state) ==
    state # "Written" \/ state # "WrittenTwice"

\* memory.ppu_ctrl_registers_status[index] = Untouched, then the panic that
\* ends each of these handlers
ResetAndPanic(p, m, index) ==
    [ppu |-> p,
     mem |-> [m EXCEPT !.ppu_ctrl_registers_status[index] = "Untouched"],
     ok  |-> FALSE]

PanicIn(s) == [s EXCEPT !.ok = FALSE]

handle_ppu_ctrl(index, s) ==
    IF ~s.ok THEN s
    ELSE IF NotWrittenOrNotWrittenTwice(
                s.mem.ppu_ctrl_registers_status[index]) THEN s
    ELSE ResetAndPanic(
             [s.ppu EXCEPT !.ppu_ctrl =
                 Load(s.mem, "ppu_ctrl_registers", index)], s.mem, index)

handle_ppu_mask(index, s) ==
    IF ~s.ok THEN s
    ELSE IF NotWrittenOrNotWrittenTwice(
                s.mem.ppu_ctrl_registers_status[index]) THEN s
    ELSE ResetAndPanic(
             [s.ppu EXCEPT !.ppu_mask =
                 Load(s.mem, "ppu_ctrl_registers", index)], s.mem, index)

handle_ppu_status(index, s) == s

handle_oam_addr(index, s) ==
    IF ~s.ok THEN s
    ELSE IF NotWrittenOrNotWrittenTwice(
                s.mem.ppu_ctrl_registers_status[index]) THEN s
    ELSE ResetAndPanic(
             [s.ppu EXCEPT !.oam_address =
                 Load(s.mem, "ppu_ctrl_registers", index)], s.mem, index)

handle_oam_data(index, s) ==
    IF ~s.ok THEN s
    ELSE IF NotWrittenOrNotWrittenTwice(
                s.mem.ppu_ctrl_registers_status[index]) THEN s
    ELSE ResetAndPanic(
             [s.ppu EXCEPT
                 !.oam_data = Load(s.mem, "ppu_ctrl_registers", index),
                 !.oam_address = wrapping_add8(s.ppu.oam_address, 1)],
             s.mem, index)

handle_ppu_scroll(index, s) ==
    IF ~s.ok THEN s
    ELSE IF s.mem.ppu_ctrl_registers_status[index] # "WrittenTwice" THEN s
    ELSE PanicIn(s)

handle_ppu_address(index, s) ==
    IF ~s.ok THEN s
    ELSE IF s.mem.ppu_ctrl_registers_status[index] # "WrittenTwice" THEN s
    ELSE PanicIn(s)

handle_ppu_data(index, s) ==
    IF ~s.ok THEN s
    ELSE IF NotWrittenOrNotWrittenTwice(
                s.mem.ppu_ctrl_registers_status[index]) THEN s
    ELSE PanicIn(s)

\* the loop over the indices 0..7, each index matching its handler
check_ppu_registers(s) ==
    handle_ppu_data(PPUDATA,
      handle_ppu_address(PPUADDR,
        handle_ppu_scroll(PPUSCROLL,
          handle_oam_data(OAMDATA,
            handle_oam_addr(OAMADDR,
              handle_ppu_status(PPUSTATUS,
                handle_ppu_mask(PPUMASK,
                  handle_ppu_ctrl(PPUCTRL, s))))))))

\* exec_dma panics
handle_dma_register(index, s) ==
    IF s.mem.misc_ctrl_registers_status[index] # "Written" THEN s
    ELSE PanicIn(s)

\* one arm of the match in check_misc_registers
check_misc_register(index, s) ==
    IF index = OAMDMA THEN handle_dma_register(index, s)
    ELSE IF s.mem.misc_ctrl_registers_status[index] # "Untouched"
        THEN PanicIn(s)
    ELSE s

\* the loop of check_misc_registers over the indices 0..0x1F: no arm
\* changes the PPU or the memory, so the loop panics when some arm does and
\* returns s as it is otherwise
check_misc_registers(s) ==
    IF s.ok /\ \E index \in 0..(MISC_CTRL_REGISTERS_SIZE - 1) :
                  ~check_misc_register(index, s).ok
        THEN PanicIn(s)
    ELSE s

\* PPU::step
ppu_step(s) == check_misc_registers(check_ppu_registers(s))

----------------------------------------------------------------------------
(* The stack helpers of Memory driven directly: SpecStack starts from any  *)
(* stack pointer over a fresh Memory and performs up to MaxOps pushes and  *)
(* pops.  hist records each call: its name, the value pushed or returned,  *)
(* SP before and after, and the memory before.                             *)

StackBytes == {0, 90, 255}
StackWords == {0, 255, 4660, 65535}

InitStack ==
    /\ \E sp \in Byte : cpu = [CPUNew(0) EXCEPT !.sp = sp]
    /\ memory = MemoryNew
    /\ run = "running"
    /\ overflow_checks \in BOOLEAN
    /\ ret = 0
    /\ hist = << >>
    /\ ppu = PPUNew
    /\ dbg = DebuggerNew

StackCall(name, r, value) ==
    /\ run = "running"
    /\ Len(hist) < MaxOps
    /\ cpu' = r.cpu
    /\ memory' = r.mem
    /\ ret' = r.val
    /\ hist' = Append(hist, [op |-> name, val |-> value,
                             sp_before |-> cpu.sp, sp_after |-> r.cpu.sp,
                             mem |-> memory])
    /\ UNCHANGED <<run, overflow_checks, ppu, dbg>>

\* a pop records the value it returned
StackPop(name, r) == StackCall(name, r, r.val)

StackPushU8 ==
    \E v \in StackBytes :
        StackCall("stack_push_u8", stack_push_u8(cpu, memory, v), v)

StackPopU8 == StackPop("stack_pop_u8", stack_pop_u8(cpu, memory))

StackPushU16 ==
    \E v \in StackWords :
        StackCall("stack_push_u16", stack_push_u16(cpu, memory, v), v)

StackPopU16 == StackPop("stack_pop_u16", stack_pop_u16(cpu, memory))

NextStack == StackPushU8 \/ StackPopU8 \/ StackPushU16 \/ StackPopU16

SpecStack == InitStack /\ [][NextStack]_vars

\* hist[i] is a push and hist[i+1] the pop of the same width
PushThenPop(i, push, pop) ==
    /\ i + 1 <= Len(hist)
    /\ hist[i].op = push
    /\ hist[i + 1].op = pop

\* C1: a stack push of v followed immediately by a pop of the same width
\* returns v and leaves SP at the value it had before the push, for every
\* initial SP in 0..255 and both widths.
C1_StackRoundTrip ==
    \A i \in 1..Len(hist) :
        (PushThenPop(i, "stack_push_u8", "stack_pop_u8")
           \/ PushThenPop(i, "stack_push_u16", "stack_pop_u16"))
        => /\ hist[i + 1].val = hist[i].val
           /\ hist[i + 1].sp_after = hist[i].sp_before

\* a 16-bit round trip that starts at SP = 0x00, where the pair of bytes
\* straddles the bottom of the stack page and SP wraps
C1_Witness ==
    /\ PushThenPop(1, "stack_push_u16", "stack_pop_u16")
    /\ hist[1].sp_before = 0
    /\ hist[1].val = 4660
    /\ ret = 4660

----------------------------------------------------------------------------
(* The CPU driven one instruction at a time.  A step is one call of        *)
(* CPU::execute; a panic inside it ends the run.  hist records each step:  *)
(* the opcode, the instruction bytes, the CPU before and after, the memory *)
(* before, whether it completed, and the cycle count it returned.  after   *)
(* is meaningful only for a step that completed.                           *)

\* the state after the call r of CPU::execute
Commit(r) ==
    /\ cpu' = IF r.ok THEN r.cpu ELSE cpu
    /\ memory' = IF r.ok THEN r.mem ELSE memory
    /\ run' = IF r.ok THEN "running" ELSE "panicked"
    /\ ret' = r.cycles
    /\ hist' = Append(hist, [op |-> decode_opcode(r.ins[1]), ins |-> r.ins,
                             before |-> cpu, after |-> r.cpu, ok |-> r.ok,
                             cycles |-> r.cycles, mem |-> memory])
    /\ UNCHANGED <<overflow_checks, ppu, dbg>>

CpuStep(bound) ==
    /\ run = "running"
    /\ Len(hist) < bound
    /\ Commit(CPUExecute(cpu, memory, overflow_checks))

lo(w) == w % 256
hi(w) == w \div 256

----------------------------------------------------------------------------
(* JSR and RTS: SpecCall places a JSR at P and an RTS at its target T and  *)
(* starts the CPU at P with any stack pointer.                             *)

MaxCallSteps == 2
CallPCs      == {0, 253, 32768, 65532, 65533}
CallTargets  == {510, 768, 49152}

InitCall ==
    /\ \E P \in CallPCs, T \in CallTargets, sp \in Byte :
          /\ cpu = [CPUNew(P) EXCEPT !.sp = sp]
          /\ memory = memdump(memdump(MemoryNew, P, <<32, lo(T), hi(T)>>),
                              T, <<96>>)
    /\ run = "running"
    /\ overflow_checks \in BOOLEAN
    /\ ret = 0
    /\ hist = << >>
    /\ ppu = PPUNew
    /\ dbg = DebuggerNew

CallStep == CpuStep(MaxCallSteps)

NextCall == CallStep

SpecCall == InitCall /\ [][NextCall]_vars

\* C2: for every initial SP, a JSR at P followed by the RTS at its target
\* leaves PC = P + 3 and SP at its value before the JSR; for every P whose
\* return address P + 3 is an address, neither instruction fails.
C2_JsrRtsReturns ==
    \A i \in 1..Len(hist) :
        (hist[i].op = "JSRAbs" /\ hist[i].before.pc + 3 <= 65535)
        => /\ hist[i].ok
           /\ (i + 1 <= Len(hist) /\ hist[i + 1].op = "RTSImp")
              => /\ hist[i + 1].ok
                 /\ hist[i + 1].after.pc = hist[i].before.pc + 3
                 /\ hist[i + 1].after.sp = hist[i].before.sp

\* the JSR at $00FD with SP = 0x00: the return address straddles the bottom
\* of the stack page, and the RTS at $C000 brings PC back to $0100
C2_Witness ==
    /\ Len(hist) = 2
    /\ hist[1].op = "JSRAbs" /\ hist[2].op = "RTSImp" /\ hist[2].ok
    /\ hist[1].before.pc = 253 /\ hist[1].before.sp = 0
    /\ hist[1].after.sp = 254
    /\ hist[2].before.pc = 49152
    /\ hist[2].after.pc = 256 /\ hist[2].after.sp = 0

----------------------------------------------------------------------------
(* ADC and SBC: SpecALU places one ADC #M or SBC #M at $8000 and starts    *)
(* the CPU there with any accumulator and either carry.                    *)

MaxAluSteps == 1
AluOperands == {0, 1, 2, 15, 16, 64, 127, 128, 129, 192, 240, 254, 255}
AluOpcodes  == {105, 233}

InitALU ==
    /\ \E A \in Byte, M \in AluOperands, C \in {0, 1}, op \in AluOpcodes :
          /\ cpu = [CPUNew(32768) EXCEPT !.a = A, !.p = 36 + C]
          /\ memory = memdump(MemoryNew, 32768, <<op, M>>)
    /\ run = "running"
    /\ overflow_checks \in BOOLEAN
    /\ ret = 0
    /\ hist = << >>
    /\ ppu = PPUNew
    /\ dbg = DebuggerNew

AluStep == CpuStep(MaxAluSteps)

NextALU == AluStep

SpecALU == InitALU /\ [][NextALU]_vars

\* the carry bit of a status byte, as 0 or 1
CarryOf(p) == p % 2

\* C3: for every accumulator A, operand M and carry-in C, ADC leaves
\* A = (A + M + C) mod 256 and sets the carry flag iff A + M + C > 255,
\* otherwise clears it.
C3_AdcSumAndCarry ==
    \A i \in 1..Len(hist) :
        hist[i].op = "ADCImm"
        => LET sum == hist[i].before.a + hist[i].ins[2]
                          + CarryOf(hist[i].before.p)
           IN  /\ hist[i].ok
               /\ hist[i].after.a = sum % 256
               /\ (CarryOf(hist[i].after.p) = 1) <=> (sum > 255)

\* C4: for every accumulator A, operand M and carry-in C, SBC leaves
\* A = (A - M - (1 - C)) mod 256 and sets the carry flag iff
\* A >= M + (1 - C), otherwise clears it.
C4_SbcDifferenceAndCarry ==
    \A i \in 1..Len(hist) :
        hist[i].op = "SBCImm"
        => LET subtrahend == hist[i].ins[2] + (1 - CarryOf(hist[i].before.p))
           IN  /\ hist[i].ok
               /\ hist[i].after.a
                     = (hist[i].before.a - subtrahend + 512) % 256
               /\ (CarryOf(hist[i].after.p) = 1)
                     <=> (hist[i].before.a >= subtrahend)

\* C13: for every A, M and carry-in, ADC sets the overflow flag V iff bit 7
\* of A equals bit 7 of M and differs from bit 7 of the 8-bit result;
\* otherwise it clears V.
C13_AdcOverflowFlag ==
    \A i \in 1..Len(hist) :
        hist[i].op = "ADCImm"
        => /\ hist[i].ok
           /\ flag_set(hist[i].after, OVERFLOW_FLAG)
                 <=> /\ is_negative(hist[i].before.a)
                           = is_negative(hist[i].ins[2])
                     /\ is_negative(hist[i].before.a)
                           # is_negative(hist[i].after.a)

\* 0x7F + 0x01 with carry clear: both operands positive, the result 0x80
\* negative, V set; and 0x01 + 0xFF with carry set: V clear
C13_Witness ==
    /\ Len(hist) >= 1
    /\ hist[1].op = "ADCImm" /\ hist[1].ok
    /\ hist[1].before.a = 127 /\ hist[1].ins[2] = 1
    /\ CarryOf(hist[1].before.p) = 0
    /\ hist[1].after.a = 128
    /\ flag_set(hist[1].after, OVERFLOW_FLAG)

----------------------------------------------------------------------------
(* Branches: SpecBranch places one of the eight branch instructions with   *)
(* any displacement byte at P and starts the CPU there, with flags that    *)
(* make the branch taken or not.                                           *)

MaxBranchSteps == 1
BranchOpcodes  == {16, 48, 80, 112, 144, 176, 208, 240}
BranchPCs      == {0, 1, 33008, 33021, 65520, 65533}
BranchFlags    == {36, 231}

InitBranch ==
    /\ \E op \in BranchOpcodes, d \in Byte, P \in BranchPCs,
          flags \in BranchFlags :
          /\ cpu = [CPUNew(P) EXCEPT !.p = flags]
          /\ memory = memdump(MemoryNew, P, <<op, d>>)
    /\ run = "running"
    /\ overflow_checks \in BOOLEAN
    /\ ret = 0
    /\ hist = << >>
    /\ ppu = PPUNew
    /\ dbg = DebuggerNew

BranchStep == CpuStep(MaxBranchSteps)

NextBranch == BranchStep

SpecBranch == InitBranch /\ [][NextBranch]_vars

IsBranch(h) == AddrMode(h.op) = "Rel"

\* the target of the branch recorded in h: P + 2 + d with the displacement
\* byte d read as a signed value, modulo 65536
BranchTarget(h) == (h.before.pc + 2 + as_i8(h.ins[2]) + 65536) % 65536

\* C5: for each of the eight branch instructions at P and every displacement
\* byte d read as a signed value in -128..127, the new PC is
\* (P + 2 + d) mod 65536 if the branch condition holds and P + 2 otherwise.
C5_BranchTarget ==
    \A i \in 1..Len(hist) :
        IsBranch(hist[i])
        => /\ hist[i].ok
           /\ hist[i].after.pc =
                 IF BranchTaken(hist[i].op, hist[i].before)
                     THEN BranchTarget(hist[i])
                 ELSE hist[i].before.pc + 2

\* C6: a branch at P costs 2 cycles when not taken, 3 cycles when taken to a
\* target on the page of P + 2, and 5 cycles when taken to a target on
\* another page than P + 2.  The target is the PC that the branch reached.
C6_BranchCycles ==
    \A i \in 1..Len(hist) :
        (IsBranch(hist[i]) /\ hist[i].ok)
        => hist[i].cycles =
              IF ~BranchTaken(hist[i].op, hist[i].before) THEN 2
              ELSE IF page(hist[i].after.pc) = page(hist[i].before.pc + 2)
                  THEN 3
              ELSE 5

----------------------------------------------------------------------------
(* JMP indirect: SpecJmp places JMP (B) at $8000 and distinct bytes at B,  *)
(* at B + 1 and at the start of the page of B.                             *)

MaxJmpSteps == 1
JmpPointers == {255, 512, 766, 767, 2047, 2815, 24576, 24831, 37119, 65535}
JmpLowBytes == {0, 52, 255}
JmpNextBytes == {18, 128}
JmpWrapBytes == {86, 192}

\* memory with JMP (B) at $8000 and the three bytes around the pointer
JmpMemory(B, vlow, vnext, vwrap) ==
    memdump(
        memdump(
            IF B + 1 <= 65535
                THEN memdump(memdump(MemoryNew, 32768, <<108, lo(B), hi(B)>>),
                             B + 1, <<vnext>>)
            ELSE memdump(MemoryNew, 32768, <<108, lo(B), hi(B)>>),
            B - (B % 256), <<vwrap>>),
        B, <<vlow>>)

InitJmp ==
    /\ \E B \in JmpPointers, vlow \in JmpLowBytes, vnext \in JmpNextBytes,
          vwrap \in JmpWrapBytes :
          /\ cpu = CPUNew(32768)
          /\ memory = JmpMemory(B, vlow, vnext, vwrap)
    /\ run = "running"
    /\ overflow_checks \in BOOLEAN
    /\ ret = 0
    /\ hist = << >>
    /\ ppu = PPUNew
    /\ dbg = DebuggerNew

JmpStep == CpuStep(MaxJmpSteps)

NextJmp == JmpStep

SpecJmp == InitJmp /\ [][NextJmp]_vars

\* the byte a read of the bus at addr returns
ByteAt(m, addr) == read_u8(m, addr).val

\* C7: JMP-indirect with pointer address B sets the low byte of PC to the
\* byte at B, and the high byte to the byte at B + 1 when (B & 0xFF) != 0xFF
\* and to the byte at (B & 0xFF00) when (B & 0xFF) = 0xFF.  Stated of the
\* step just taken, whose reads leave every byte of memory as it was.
C7_JmpIndirectPointer ==
    (Len(hist) >= 1 /\ hist[Len(hist)].op = "JMPInd")
    => LET h == hist[Len(hist)]
           B == arg_u16(h.ins)
       IN  /\ h.ok
           /\ lo(h.after.pc) = ByteAt(memory, B)
           /\ hi(h.after.pc) =
                 IF BitAnd(B, 255) # 255 THEN ByteAt(memory, B + 1)
                 ELSE ByteAt(memory, BitAnd(B, 65280))

\* JMP ($02FF): the high byte comes from $0200 (0x56), not from $0300 (0x12)
C7_Witness ==
    /\ Len(hist) = 1 /\ hist[1].op = "JMPInd" /\ hist[1].ok
    /\ arg_u16(hist[1].ins) = 767
    /\ ByteAt(memory, 767) = 52
    /\ ByteAt(memory, 768) = 18
    /\ ByteAt(memory, 512) = 86
    /\ hist[1].after.pc = 22068
    /\ hist[1].cycles = 5

----------------------------------------------------------------------------
(* The two wrapped 16-bit readers called directly: SpecReaders starts from *)
(* a memory with a distinct byte in every cell the readers can reach and   *)
(* calls either reader at an address of ReaderAddrs.  hist records the     *)
(* reader, the address passed, the word returned and whether it returned.  *)

MaxReads    == 2
ReaderAddrs == {254, 255, 256, 765, 766, 767, 768, 65534, 65535, 65536}

\* $00FE.. = 01 02 03, $0200 = 04, $02FD.. = 05 06 07 08 09,
\* $FF00 = 0A, $FFFD.. = 0B 0C 0D
ReaderMemory ==
    memdump(memdump(memdump(memdump(memdump(MemoryNew,
        254, <<1, 2, 3>>), 512, <<4>>), 765, <<5, 6, 7, 8, 9>>),
        65280, <<10>>), 65533, <<11, 12, 13>>)

InitReaders ==
    /\ cpu = CPUNew(0)
    /\ memory = ReaderMemory
    /\ run = "running"
    /\ overflow_checks \in BOOLEAN
    /\ ret = 0
    /\ hist = << >>
    /\ ppu = PPUNew
    /\ dbg = DebuggerNew

\* the state after the call r of the reader name at addr
ReaderCall(name, addr, r) ==
    /\ run = "running"
    /\ Len(hist) < MaxReads
    /\ memory' = r.mem
    /\ ret' = r.val
    /\ run' = IF r.ok THEN "running" ELSE "panicked"
    /\ hist' = Append(hist, [op |-> name, addr |-> addr, val |-> r.val,
                             ok |-> r.ok])
    /\ UNCHANGED <<cpu, overflow_checks, ppu, dbg>>

ReadWrappedMsb ==
    \E a \in ReaderAddrs :
        ReaderCall("read_u16_wrapped_msb", a, read_u16_wrapped_msb(memory, a))

ReadWrappedMsbAlt ==
    \E a \in ReaderAddrs :
        ReaderCall("read_u16_wrapped_msb_alt", a,
                   read_u16_wrapped_msb_alt(memory, a))

NextReaders == ReadWrappedMsb \/ ReadWrappedMsbAlt

SpecReaders == InitReaders /\ [][NextReaders]_vars

\* C8: for every address a, read_u16_wrapped_msb_alt(a + 1) returns the same
\* word as read_u16_wrapped_msb(a); in particular when a ends in 0xFF the
\* high byte comes from a & 0xFF00.
C8_WrappedReadersAgree ==
    \A i \in 1..Len(hist) :
        (hist[i].op = "read_u16_wrapped_msb" /\ hist[i].ok
           /\ i + 1 <= Len(hist)
           /\ hist[i + 1].op = "read_u16_wrapped_msb_alt"
           /\ hist[i + 1].addr = hist[i].addr + 1)
        => /\ hist[i + 1].ok
           /\ hist[i + 1].val = hist[i].val

----------------------------------------------------------------------------
(* BRK: SpecBrk places a BRK at P and starts the CPU there with any stack  *)
(* pointer.                                                                *)

MaxBrkSteps == 1
BrkPCs      == {0, 32768, 65535}
BrkFlags    == {36, 52, 231}

InitBrk ==
    /\ \E P \in BrkPCs, sp \in Byte, flags \in BrkFlags :
          /\ cpu = [CPUNew(P) EXCEPT !.sp = sp, !.p = flags]
          /\ memory = memdump(MemoryNew, P, <<0>>)
    /\ run = "running"
    /\ overflow_checks \in BOOLEAN
    /\ ret = 0
    /\ hist = << >>
    /\ ppu = PPUNew
    /\ dbg = DebuggerNew

BrkStep == CpuStep(MaxBrkSteps)

NextBrk == BrkStep

SpecBrk == InitBrk /\ [][NextBrk]_vars

\* the byte on top of the stack of CPU c, and the word under it
TopByte(c, m)   == stack_pop_u8(c, m).val
WordUnder(c, m) == stack_pop_u16(stack_pop_u8(c, m).cpu, m).val

\* C9: BRK executed at address P pushes the 16-bit value P + 2, then pushes
\* the byte (P-register | 0x10), and sets the B bit in the status register;
\* SP decreases by 3 modulo 256.  Stated of the step just taken: what it
\* pushed is what the stack gives back.
C9_BrkPushes ==
    (Len(hist) >= 1 /\ hist[Len(hist)].op = "BRKImp")
    => LET h == hist[Len(hist)]
       IN  /\ h.ok
           /\ WordUnder(h.after, memory) = (h.before.pc + 2) % 65536
           /\ TopByte(h.after, memory) = BitOr(h.before.p, 16)
           /\ flag_set(h.after, BREAK_COMMAND)
           /\ h.after.sp = (h.before.sp + 256 - 3) % 256

----------------------------------------------------------------------------
(* Programs: SpecRun starts from CPU::new at $8000 with a program of two   *)
(* instructions there: the first is any of the 151 opcodes with operand    *)
(* bytes of RunArgs1 and RunArgs2, the second one of RunSecond.  The zero  *)
(* page cell $10 and the two cells on top of the stack hold bytes left by  *)
(* earlier execution.                                                      *)

MaxRunSteps == 3
RunArgs1    == {16, 255}
RunArgs2    == {0, 1}
RunData     == {0, 255}
RunStacked  == {0, 223}
\* PHP, BIT $10, PLP, RTI, PHA, PLA
RunSecond   == {<<8>>, <<36, 16>>, <<40>>, <<64>>, <<72>>, <<104>>}

\* every instruction with the opcode byte b
InstructionsOf(b) ==
    IF opcode_len(OpcodeEnum[b]) = 1 THEN {<<b>>}
    ELSE IF opcode_len(OpcodeEnum[b]) = 2 THEN {<<b, a1>> : a1 \in RunArgs1}
    ELSE {<<b, a1, a2>> : a1 \in RunArgs1, a2 \in RunArgs2}

RunFirst == UNION {InstructionsOf(b) : b \in DOMAIN OpcodeEnum}

InitRun ==
    /\ \E first \in RunFirst, second \in RunSecond, v \in RunData,
          w \in RunStacked :
          memory = memdump(memdump(memdump(MemoryNew,
                       32768, first \o second), 16, <<v>>), 510, <<w, 128>>)
    /\ cpu = CPUNew(32768)
    /\ run = "running"
    /\ overflow_checks \in BOOLEAN
    /\ ret = 0
    /\ hist = << >>
    /\ ppu = PPUNew
    /\ dbg = DebuggerNew

RunStep == CpuStep(MaxRunSteps)

NextRun == RunStep

SpecRun == InitRun /\ [][NextRun]_vars

\* C10: bit 5 of the status register P is 1 in every reachable CPU state
\* starting from P = 0x24: no instruction clears it, PLP and RTI popping a
\* byte with bit 5 clear and BIT included.
C10_Bit5AlwaysSet == BitAnd(cpu.p, 32) = 32

\* PLP as second instruction pops 0xDF, whose bit 5 is clear, and P becomes
\* 0xEF
C10_Witness ==
    /\ Len(hist) >= 2
    /\ hist[2].op = "PLPImp" /\ hist[2].ok
    /\ hist[2].before.sp = 253
    /\ TopByte(hist[2].before, memory) = 223
    /\ hist[2].after.p = 239
    /\ cpu.p = 239

----------------------------------------------------------------------------
(* PHP then PLP: SpecPhp starts with the program PHP; PLP at $8000, every  *)
(* stack pointer and every status byte the CPU can hold (bit 5 is set from *)
(* CPU::new on).                                                           *)

MaxPhpSteps == 2
PhpFlags    == {P \in Byte : BitAnd(P, 32) = 32}

InitPhp ==
    /\ \E sp \in Byte, P \in PhpFlags :
          cpu = [CPUNew(32768) EXCEPT !.sp = sp, !.p = P]
    /\ memory = memdump(MemoryNew, 32768, <<8, 40>>)
    /\ run = "running"
    /\ overflow_checks \in BOOLEAN
    /\ ret = 0
    /\ hist = << >>
    /\ ppu = PPUNew
    /\ dbg = DebuggerNew

PhpStep == CpuStep(MaxPhpSteps)

NextPhp == PhpStep

SpecPhp == InitPhp /\ [][NextPhp]_vars

\* C11: for every status value P and every initial SP, executing PHP and
\* then PLP leaves the status register equal to P with bit 4 (B) cleared and
\* every other bit, bit 5 included, unchanged, and leaves SP at its initial
\* value.
C11_PhpPlpRestores ==
    \A i \in 1..(Len(hist) - 1) :
        (hist[i].op = "PHPImp" /\ hist[i].ok /\ hist[i + 1].op = "PLPImp")
        => /\ hist[i + 1].ok
           /\ hist[i + 1].after.p = BitAnd(hist[i].before.p, 239)
           /\ hist[i + 1].after.sp = hist[i].before.sp

\* PHP at SP = 0x00 with B set in P = 0xF7: the push wraps SP to 0xFF, PLP
\* brings it back and P is 0xE7
C11_Witness ==
    /\ Len(hist) >= 2
    /\ hist[1].op = "PHPImp" /\ hist[1].before.p = 247
    /\ hist[1].before.sp = 0 /\ hist[1].after.sp = 255
    /\ hist[2].op = "PLPImp" /\ hist[2].ok
    /\ hist[2].after.p = 231 /\ hist[2].after.sp = 0

----------------------------------------------------------------------------
(* Zero and negative flags: SpecFlags starts the CPU at $8000 on one       *)
(* instruction that computes a byte for a register or a memory cell, with  *)
(* every input byte v: v is the immediate operand, the byte in the cell    *)
(* the addressing mode resolves to, the byte on top of the stack (PLA), or *)
(* the source register (accumulator and implied modes).  The logical and   *)
(* arithmetic instructions combine v with an accumulator of FlagAccs.      *)

MaxFlagSteps == 1
FlagAccs     == {0, 255}

FlagMnemonics ==
    {"LDA", "LDX", "LDY", "TAX", "TAY", "TXA", "TYA", "TSX", "PLA",
     "AND", "ORA", "EOR", "ADC", "SBC", "INC", "DEC", "INX", "INY",
     "DEX", "DEY", "ASL", "LSR", "ROL", "ROR"}

FlagOpcodes ==
    {b \in DOMAIN OpcodeEnum : Mnemonic(OpcodeEnum[b]) \in FlagMnemonics}

\* the instruction with opcode byte b: operand byte $10, operand word $0210,
\* or the immediate v
FlagInstruction(b, v) ==
    IF AddrMode(OpcodeEnum[b]) = "Imm" THEN <<b, v>>
    ELSE SubSeq(<<b, 16, 2>>, 1, opcode_len(OpcodeEnum[b]))

\* with X = 2 and Y = 3, the cell each addressing mode resolves to; the
\* indirect modes go through the pointer $0300 in the zero page
FlagCell(mode) ==
    CASE mode = "Zero"  -> 16
      [] mode = "ZeroX" -> 18
      [] mode = "ZeroY" -> 19
      [] mode = "Abs"   -> 528
      [] mode = "AbsX"  -> 530
      [] mode = "AbsY"  -> 531
      [] mode = "IndX"  -> 768
      [] mode = "IndY"  -> 771
      [] OTHER          -> 510

FlagPointer(m, mode) ==
    CASE mode = "IndX" -> memdump(m, 18, <<0, 3>>)
      [] mode = "IndY" -> memdump(m, 16, <<0, 3>>)
      [] OTHER         -> m

FlagMemory(b, v) ==
    memdump(FlagPointer(memdump(MemoryNew, 32768, FlagInstruction(b, v)),
                        AddrMode(OpcodeEnum[b])),
            FlagCell(AddrMode(OpcodeEnum[b])), <<v>>)

FlagCPU(b, v, r, C) ==
    IF OpcodeEnum[b] = "PLAImp"
        THEN [CPUNew(32768) EXCEPT !.p = 36 + C]
    ELSE IF AddrMode(OpcodeEnum[b]) \in {"Imp", "Acc"}
        THEN [CPUNew(32768) EXCEPT !.a = v, !.x = v, !.y = v, !.sp = v,
                                   !.p = 36 + C]
    ELSE IF Mnemonic(OpcodeEnum[b]) \in {"AND", "ORA", "EOR", "ADC", "SBC"}
        THEN [CPUNew(32768) EXCEPT !.a = r, !.x = 2, !.y = 3, !.p = 36 + C]
    ELSE [CPUNew(32768) EXCEPT !.x = 2, !.y = 3, !.p = 36 + C]

InitFlags ==
    /\ \E b \in FlagOpcodes, v \in Byte, r \in FlagAccs, C \in {0, 1} :
          /\ cpu = FlagCPU(b, v, r, C)
          /\ memory = FlagMemory(b, v)
    /\ run = "running"
    /\ overflow_checks \in BOOLEAN
    /\ ret = 0
    /\ hist = << >>
    /\ ppu = PPUNew
    /\ dbg = DebuggerNew

FlagStep == CpuStep(MaxFlagSteps)

NextFlags == FlagStep

SpecFlags == InitFlags /\ [][NextFlags]_vars

\* the byte that the step h computed, read from where h left it: the
\* destination register, or the memory cell of a read-modify-write
FlagResult(h, m) ==
    CASE AddrMode(h.op) = "Acc" -> h.after.a
      [] Mnemonic(h.op) \in {"INC", "DEC", "ASL", "LSR", "ROL", "ROR"}
           /\ AddrMode(h.op) # "Acc"
           -> ByteAt(m, Resolve(AddrMode(h.op), h.ins, h.before, m).addr)
      [] Mnemonic(h.op) \in {"LDX", "TAX", "TSX", "INX", "DEX"} -> h.after.x
      [] Mnemonic(h.op) \in {"LDY", "TAY", "INY", "DEY"} -> h.after.y
      [] OTHER -> h.after.a

\* C12: for every load, register transfer other than TXS, PLA, logical,
\* ADC/SBC, increment/decrement and shift/rotate instruction and every input
\* byte, after execution the Z flag equals (result = 0) and the N flag equals
\* bit 7 of result, result being the byte computed for the destination
\* register or memory cell.  Stated of the step just taken.
C12_ZeroNegativeFlags ==
    (Len(hist) >= 1 /\ Mnemonic(hist[Len(hist)].op) \in FlagMnemonics)
    => /\ hist[Len(hist)].ok
       /\ flag_set(hist[Len(hist)].after, ZERO_FLAG)
             <=> (FlagResult(hist[Len(hist)], memory) = 0)
       /\ flag_set(hist[Len(hist)].after, NEGATIVE_FLAG)
             <=> (FlagResult(hist[Len(hist)], memory) >= 128)

\* ROR A with A = 0x01 and the carry set: the result is 0x80, N is set and
\* Z is clear
C12_Witness ==
    /\ Len(hist) >= 1
    /\ hist[Len(hist)].op = "RORAcc" /\ hist[Len(hist)].ok
    /\ hist[Len(hist)].before.a = 1
    /\ flag_set(hist[Len(hist)].before, CARRY_FLAG)
    /\ hist[Len(hist)].after.a = 128
    /\ flag_set(hist[Len(hist)].after, NEGATIVE_FLAG)
    /\ ~flag_set(hist[Len(hist)].after, ZERO_FLAG)

----------------------------------------------------------------------------
(* BIT: SpecBit starts the CPU at $8000 on BIT $10 or BIT abs with every   *)
(* operand byte M, in RAM, in the PPU status register $2002, in SRAM and   *)
(* in PRG ROM.                                                             *)

MaxBitSteps == 1
BitAccs     == {0, 1, 64, 128, 192, 255}
BitFlags    == {36, 37, 38, 100, 164, 231, 247}
BitCells    == {528, 8194, 24576, 32784}

\* BIT $10, or BIT abs for each cell of BitCells
BitInstructions == {<<36, 16>>} \cup {<<44, lo(a), hi(a)>> : a \in BitCells}

InitBit ==
    /\ \E ins \in BitInstructions, A \in BitAccs, M \in Byte,
          P \in BitFlags :
          /\ cpu = [CPUNew(32768) EXCEPT !.a = A, !.x = 2, !.y = 3, !.p = P]
          /\ memory = memdump(memdump(MemoryNew, 32768, ins),
                              IF Len(ins) = 2 THEN 16 ELSE arg_u16(ins),
                              <<M>>)
    /\ run = "running"
    /\ overflow_checks \in BOOLEAN
    /\ ret = 0
    /\ hist = << >>
    /\ ppu = PPUNew
    /\ dbg = DebuggerNew

BitStep == CpuStep(MaxBitSteps)

NextBit == BitStep

SpecBit == InitBit /\ [][NextBit]_vars

\* the byte M that the BIT step h tests
BitOperand(h) ==
    read_u8_unrestricted(h.mem, IF h.op = "BITZero" THEN zero_page(h.ins)
                                ELSE absolute(h.ins)).val

\* C14: for every A, M and prior status P, BIT sets Z iff (A & M) = 0, sets
\* N to bit 7 of M and V to bit 6 of M regardless of A, and leaves every
\* other bit of P and the registers A, X, Y, SP and memory unchanged.
C14_BitFlagsAndFrame ==
    \A i \in 1..Len(hist) :
        hist[i].op \in {"BITZero", "BITAbs"}
        => /\ hist[i].ok
           /\ flag_set(hist[i].after, ZERO_FLAG)
                 <=> (BitAnd(hist[i].before.a, BitOperand(hist[i])) = 0)
           /\ BitAnd(hist[i].after.p, 192) = BitAnd(BitOperand(hist[i]), 192)
           /\ BitAnd(hist[i].after.p, 61) = BitAnd(hist[i].before.p, 61)
           /\ hist[i].after.a = hist[i].before.a
           /\ hist[i].after.x = hist[i].before.x
           /\ hist[i].after.y = hist[i].before.y
           /\ hist[i].after.sp = hist[i].before.sp
           /\ IF i < Len(hist) THEN hist[i + 1].mem.bytes = hist[i].mem.bytes
              ELSE memory.bytes = hist[i].mem.bytes

\* BIT $2002 with M = 0xC0, A = 0x01 and P = 0x24: Z, N and V all become
\* set, P = 0xE6
C14_Witness ==
    /\ Len(hist) >= 1
    /\ hist[1].op = "BITAbs" /\ hist[1].ok
    /\ arg_u16(hist[1].ins) = 8194
    /\ BitOperand(hist[1]) = 192
    /\ hist[1].before.a = 1 /\ hist[1].before.p = 36
    /\ hist[1].after.p = 230

----------------------------------------------------------------------------
(* Page crossing: SpecPage runs the same indexed opcode twice from $8000.  *)
(* The first instruction indexes from the base $0300, so that it stays in  *)
(* the page for every index; the second indexes from a base of PageBases.  *)
(* The (zp),Y instructions take their bases from pointers at $10 and $20.  *)

MaxPageSteps == 2
PageBases    == {512, 513, 640, 767, 33023, 65535}

PageOpcodes ==
    {b \in DOMAIN OpcodeEnum :
        AddrMode(OpcodeEnum[b]) \in {"AbsX", "AbsY", "IndY"}}

\* the two instructions with opcode byte b, the second with base address B
PageProgram(b, B) ==
    IF AddrMode(OpcodeEnum[b]) = "IndY" THEN <<b, 16, b, 32>>
    ELSE <<b, 0, 3, b, lo(B), hi(B)>>

InitPage ==
    /\ \E b \in PageOpcodes, B \in PageBases, index \in Byte :
          /\ cpu = [CPUNew(32768) EXCEPT !.x = index, !.y = index]
          /\ memory = memdump(memdump(memdump(MemoryNew,
                          32768, PageProgram(b, B)),
                          16, <<0, 3>>), 32, <<lo(B), hi(B)>>)
    /\ run = "running"
    /\ overflow_checks \in BOOLEAN
    /\ ret = 0
    /\ hist = << >>
    /\ ppu = PPUNew
    /\ dbg = DebuggerNew

PageStep == CpuStep(MaxPageSteps)

NextPage == PageStep

SpecPage == InitPage /\ [][NextPage]_vars

\* the base address and the indexed address of the step h
BaseAddress(h) ==
    IF AddrMode(h.op) = "IndY"
        THEN read_u16_wrapped_msb(h.mem, arg_u8(h.ins)).val
    ELSE arg_u16(h.ins)

IndexedAddress(h) ==
    (BaseAddress(h) + (IF AddrMode(h.op) = "AbsX" THEN h.before.x
                       ELSE h.before.y)) % 65536

CrossesPage(h) == BaseAddress(h) \div 256 # IndexedAddress(h) \div 256

IsIndexed(h) == h.op # "invalid" /\ AddrMode(h.op) \in {"AbsX", "AbsY", "IndY"}

IsIndexedRead(h) ==
    /\ IsIndexed(h)
    /\ Mnemonic(h.op) \in {"ADC", "AND", "CMP", "EOR", "LDA", "LDX", "LDY",
                           "ORA", "SBC"}

\* C15: for every AbsoluteX-read, AbsoluteY-read and IndirectIndexed-read
\* opcode and every base address and index register value, the cycle count
\* when the indexed address lies on a different page than the base address
\* is exactly one more than the count for the same opcode when it lies on
\* the same page; AbsoluteX/AbsoluteY/IndirectIndexed stores and
\* read-modify-write opcodes cost the same in both cases.
C15_PageCrossPenalty ==
    \A i, j \in 1..Len(hist) :
        (/\ IsIndexed(hist[i]) /\ hist[j].op = hist[i].op
         /\ CrossesPage(hist[i]) /\ ~CrossesPage(hist[j]))
        => /\ hist[i].ok /\ hist[j].ok
           /\ hist[i].cycles = hist[j].cycles
                               + (IF IsIndexedRead(hist[i]) THEN 1 ELSE 0)

\* LDA $0300,X then LDA $02FF,X with X = 1: 4 cycles, then 5
C15_Witness ==
    /\ Len(hist) >= 2
    /\ hist[1].op = "LDAAbsX" /\ hist[2].op = "LDAAbsX"
    /\ hist[1].before.x = 1
    /\ ~CrossesPage(hist[1]) /\ CrossesPage(hist[2])
    /\ IndexedAddress(hist[2]) = 768
    /\ hist[1].cycles = 4 /\ hist[2].cycles = 5

----------------------------------------------------------------------------
(* The bus called directly.  BusCall is the state after the call r of the  *)
(* bus operation name at addr with the byte arg; hist records the call,    *)
(* the byte it returned and the memory before it.                          *)

BusCall(bound, name, addr, arg, r) ==
    /\ run = "running"
    /\ Len(hist) < bound
    /\ memory' = r.mem
    /\ ret' = r.val
    /\ run' = IF r.ok THEN "running" ELSE "panicked"
    /\ hist' = Append(hist, [op |-> name, addr |-> addr, arg |-> arg,
                             val |-> r.val, ok |-> r.ok, mem |-> memory])
    /\ UNCHANGED <<cpu, overflow_checks, ppu, dbg>>

----------------------------------------------------------------------------
(* RAM mirrors: SpecMirror writes a byte at any address below $2000 of an  *)
(* empty memory and then reads the four mirrors of that address in turn.   *)

MaxMirrorOps == 5
MirrorBytes  == {119, 255}

\* the k-th mirror of the RAM address a
MirrorOf(a, k) == (a % 2048) + k * 2048

InitMirror ==
    /\ cpu = CPUNew(0)
    /\ memory = MemoryNew
    /\ run = "running"
    /\ overflow_checks \in BOOLEAN
    /\ ret = 0
    /\ hist = << >>
    /\ ppu = PPUNew
    /\ dbg = DebuggerNew

MirrorWrite ==
    /\ hist = << >>
    /\ \E a \in 0..8191, v \in MirrorBytes :
          BusCall(MaxMirrorOps, "write_u8", a, v, write_u8(memory, a, v))

MirrorReadAt(a) ==
    BusCall(MaxMirrorOps, "read_u8", a, 0, read_u8(memory, a))

MirrorRead ==
    /\ hist # << >>
    /\ MirrorReadAt(MirrorOf(hist[1].addr, (Len(hist) - 1) % 4))

NextMirror == MirrorWrite \/ MirrorRead

SpecMirror == InitMirror /\ [][NextMirror]_vars

\* C16: for every address a in [0, 0x2000) and byte v, after write_u8(a, v)
\* a read_u8 at each of the four addresses (a mod 0x800) + k * 0x800,
\* k in {0, 1, 2, 3}, returns v.
C16_RamMirrors ==
    \A i \in 1..Len(hist) :
        (/\ hist[1].op = "write_u8" /\ hist[1].addr \in 0..8191
         /\ hist[i].op = "read_u8"
         /\ \E k \in 0..3 : hist[i].addr = MirrorOf(hist[1].addr, k))
        => hist[1].ok /\ hist[i].ok /\ hist[i].val = hist[1].arg

\* 0x77 written to $0005 is read at $0005, $0805, $1005 and $1805
C16_Witness ==
    /\ Len(hist) >= 5
    /\ hist[1].op = "write_u8" /\ hist[1].addr = 5 /\ hist[1].arg = 119
    /\ hist[2].addr = 5 /\ hist[3].addr = 2053
    /\ hist[4].addr = 4101 /\ hist[5].addr = 6149
    /\ \A i \in 2..5 : hist[i].op = "read_u8" /\ hist[i].val = 119

----------------------------------------------------------------------------
(* Dropped writes: SpecDrop starts from a memory whose read-only cells     *)
(* hold bytes placed at load time, and writes to and reads from them.      *)

MaxDropOps == 2
\* $2002 and two of its mirrors, the ends of the expansion ROM and of the
\* two PRG banks
DropAddrs  == {8194, 8202, 16378, 16416, 24575, 32768, 49151, 49152, 65535}
DropBytes  == {0, 90}

\* $2002 = 80, $4020 = 11, $5FFF = 12, $8000 = A9, $BFFF = 21, $C000 = 22,
\* $FFFF = 23
DropMemory ==
    memdump(memdump(memdump(memdump(memdump(memdump(memdump(MemoryNew,
        8194, <<128>>), 16416, <<17>>), 24575, <<18>>), 32768, <<169>>),
        49151, <<33>>), 49152, <<34>>), 65535, <<35>>)

InitDrop ==
    /\ cpu = CPUNew(0)
    /\ memory = DropMemory
    /\ run = "running"
    /\ overflow_checks \in BOOLEAN
    /\ ret = 0
    /\ hist = << >>
    /\ ppu = PPUNew
    /\ dbg = DebuggerNew

DropWrite ==
    \E a \in DropAddrs, v \in DropBytes :
        BusCall(MaxDropOps, "write_u8", a, v, write_u8(memory, a, v))

DropRead ==
    \E a \in DropAddrs :
        BusCall(MaxDropOps, "read_u8", a, 0, read_u8(memory, a))

DropReadUnrestricted ==
    \E a \in DropAddrs :
        BusCall(MaxDropOps, "read_u8_unrestricted", a, 0,
                read_u8_unrestricted(memory, a))

NextDrop == DropWrite \/ DropRead \/ DropReadUnrestricted

SpecDrop == InitDrop /\ [][NextDrop]_vars

\* the regions that take no write: expansion ROM, the PRG banks, and the
\* register $2002 with its mirrors
NotWritable(a) ==
    \/ a \in 16416..24575
    \/ a \in 32768..65535
    \/ a \in 8192..16383 /\ a % 8 = 2

\* the memory after the i-th call
MemoryAfter(i) == IF i < Len(hist) THEN hist[i + 1].mem ELSE memory

\* C17: a write_u8 to an address in a region that is not writable (expansion
\* ROM, PRG bank 1, PRG bank 2, PPU register $2002 and its mirrors) is
\* silently dropped: the byte stored at every address, as seen by later
\* restricted and unrestricted reads, is unchanged and no error is raised.
C17_DroppedWrites ==
    \A i \in 1..Len(hist) :
        (hist[i].op = "write_u8" /\ NotWritable(hist[i].addr))
        => /\ hist[i].ok
           /\ MemoryAfter(i).bytes = hist[i].mem.bytes
           /\ \A j \in (i + 1)..Len(hist) :
                 hist[j].op \in {"read_u8", "read_u8_unrestricted"}
                 => /\ hist[j].ok
                    /\ hist[j].val
                         = read_u8_unrestricted(hist[i].mem, hist[j].addr).val

\* 0x5A written to $8000, which holds 0xA9: a restricted read of $8000
\* returns 0xA9 afterwards
C17_Witness ==
    /\ Len(hist) >= 2
    /\ hist[1].op = "write_u8" /\ hist[1].addr = 32768 /\ hist[1].arg = 90
    /\ hist[1].ok
    /\ hist[2].op = "read_u8" /\ hist[2].addr = 32768 /\ hist[2].val = 169

----------------------------------------------------------------------------
(* Write-only registers: SpecOpenBus starts from a memory whose write-only *)
(* registers hold bytes and are Untouched, and writes to and reads from    *)
(* them.                                                                   *)

MaxOpenOps == 2
\* $2000, $2001, $2003, $2005, $2006, the mirrors $2008 and $3FFE, $4014
OpenAddrs  == {8192, 8193, 8195, 8197, 8198, 8200, 16382, 16404}
OpenBytes  == {90}

\* $2000.. = 90 1E, $2003 = 03, $2005.. = 05 06, $4014 = 02
OpenMemory ==
    memdump(memdump(memdump(memdump(MemoryNew,
        8192, <<144, 30>>), 8195, <<3>>), 8197, <<5, 6>>), 16404, <<2>>)

InitOpenBus ==
    /\ cpu = CPUNew(0)
    /\ memory = OpenMemory
    /\ run = "running"
    /\ overflow_checks \in BOOLEAN
    /\ ret = 0
    /\ hist = << >>
    /\ ppu = PPUNew
    /\ dbg = DebuggerNew

OpenWrite ==
    \E a \in OpenAddrs, v \in OpenBytes :
        BusCall(MaxOpenOps, "write_u8", a, v, write_u8(memory, a, v))

OpenRead ==
    \E a \in OpenAddrs :
        BusCall(MaxOpenOps, "read_u8", a, 0, read_u8(memory, a))

NextOpenBus == OpenWrite \/ OpenRead

SpecOpenBus == InitOpenBus /\ [][NextOpenBus]_vars

\* the write-only registers: $2000, $2001, $2003, $2005, $2006 with their
\* mirrors, and $4014
NotReadable(a) ==
    \/ a \in 8192..16383 /\ a % 8 \in {0, 1, 3, 5, 6}
    \/ a = 16404

\* C18: a read_u8 of an address whose region is not readable (the write-only
\* PPU registers $2000, $2001, $2003, $2005, $2006 and their mirrors, and
\* $4014) returns 0 and has no side effect: the stored bytes and the I/O
\* touch state of every register are the same as before the read.
C18_UnreadableReadNoEffect ==
    \A i \in 1..Len(hist) :
        (hist[i].op = "read_u8" /\ NotReadable(hist[i].addr))
        => /\ hist[i].ok
           /\ hist[i].val = 0
           /\ MemoryAfter(i).bytes = hist[i].mem.bytes
           /\ MemoryAfter(i).ppu_ctrl_registers_status
                 = hist[i].mem.ppu_ctrl_registers_status
           /\ MemoryAfter(i).misc_ctrl_registers_status
                 = hist[i].mem.misc_ctrl_registers_status

----------------------------------------------------------------------------
(* Touch state: SpecTouch makes any sequence of restricted reads and       *)
(* writes (Read, Write) and unrestricted reads and writes (Nop) of PPU     *)
(* registers, from a memory whose registers are Untouched.                 *)

MaxTouchOps == 3
\* $2000, $2006, $2007 and the mirror $3FFE of $2006
TouchAddrs  == {8192, 8198, 8199, 16382}

InitTouch ==
    /\ cpu = CPUNew(0)
    /\ memory = MemoryNew
    /\ run = "running"
    /\ overflow_checks \in BOOLEAN
    /\ ret = 0
    /\ hist = << >>
    /\ ppu = PPUNew
    /\ dbg = DebuggerNew

TouchRead ==
    \E a \in TouchAddrs :
        BusCall(MaxTouchOps, "read_u8", a, 0, read_u8(memory, a))

TouchWrite ==
    \E a \in TouchAddrs :
        BusCall(MaxTouchOps, "write_u8", a, 90, write_u8(memory, a, 90))

TouchReadUnrestricted ==
    \E a \in TouchAddrs :
        BusCall(MaxTouchOps, "read_u8_unrestricted", a, 0,
                read_u8_unrestricted(memory, a))

TouchWriteUnrestricted ==
    \E a \in TouchAddrs :
        BusCall(MaxTouchOps, "write_u8_unrestricted", a, 90,
                write_u8_unrestricted(memory, a, 90))

NextTouch ==
    TouchRead \/ TouchWrite \/ TouchReadUnrestricted \/ TouchWriteUnrestricted

SpecTouch == InitTouch /\ [][NextTouch]_vars

\* the touch state of the PPU register reg before and after the i-th call
TouchBefore(i, reg) == hist[i].mem.ppu_ctrl_registers_status[reg]
TouchAfter(i, reg)  == MemoryAfter(i).ppu_ctrl_registers_status[reg]

\* the i-th call is a bus Write of the PPU register reg
IsWriteOf(i, reg) ==
    /\ hist[i].op = "write_u8"
    /\ hist[i].addr \in 8192..16383
    /\ hist[i].addr % 8 = reg

\* C19: for each PPU register, under any sequence of bus Read, Write and Nop
\* accesses: a Write in state Written moves the touch state to WrittenTwice,
\* and once the state is Written or WrittenTwice no bus access returns it to
\* Read or Untouched (a Read or Nop leaves it as it is, a further Write
\* leaves WrittenTwice).
C19_WrittenTwice ==
    \A i \in 1..Len(hist), reg \in 0..7 :
        /\ (IsWriteOf(i, reg) /\ TouchBefore(i, reg) = "Written")
              => TouchAfter(i, reg) = "WrittenTwice"
        /\ (~IsWriteOf(i, reg)
              /\ TouchBefore(i, reg) \in {"Written", "WrittenTwice"})
              => TouchAfter(i, reg) = TouchBefore(i, reg)
        /\ TouchBefore(i, reg) = "WrittenTwice"
              => TouchAfter(i, reg) = "WrittenTwice"

\* $2006 written, written again through its mirror $3FFE, then read: the
\* state goes Untouched, Written, WrittenTwice and stays
C19_Witness ==
    /\ Len(hist) >= 3
    /\ hist[1].op = "write_u8" /\ hist[1].addr = 8198
    /\ hist[2].op = "write_u8" /\ hist[2].addr = 16382
    /\ hist[3].op = "read_u8" /\ hist[3].addr = 8198
    /\ TouchBefore(1, 6) = "Untouched" /\ TouchBefore(2, 6) = "Written"
    /\ TouchBefore(3, 6) = "WrittenTwice"
    /\ TouchAfter(3, 6) = "WrittenTwice"

----------------------------------------------------------------------------
(* src/nes/nes.rs: NES::step, one CPU instruction followed by three PPU    *)
(* steps per CPU cycle.  SpecNes starts the console at $8000 on a program  *)
(* of two instructions that load from, store to, test or increment a RAM   *)
(* cell or an I/O register.                                                *)

\* self.cpu.step(&mut self.memory): decode and execute one instruction and
\* return its cycles
cpu_step(c, m, oc) == CPUExecute(c, m, oc)

\* self.cpu.sleep(cycles): wall-clock pacing
cpu_sleep(c, cycles) == c

\* what the PPU steps left, with the number of calls of PPU::step made
Stepped(s, ticks) ==
    [ppu |-> s.ppu, mem |-> s.mem, ok |-> s.ok, ticks |-> ticks]

\* n calls of PPU::step in a row, as far as none panics, after ticks calls
RECURSIVE ppu_steps(_, _, _)
ppu_steps(n, s, ticks) ==
    IF ~s.ok \/ n = 0 THEN Stepped(s, ticks)
    ELSE ppu_steps(n - 1, ppu_step(s), ticks + 1)

\* the while loop of NES::step with one PPU step per CPU cycle
SynchronizePPU_once_per_cycle(p, r) ==
    ppu_steps(r.cycles, [ppu |-> p, mem |-> r.mem, ok |-> TRUE], 0)

\* the PPU and the memory that the while loop of NES::step leaves, r the
\* return of cpu.step
SynchronizePPU(p, r) ==
    ppu_steps(3 * r.cycles, [ppu |-> p, mem |-> r.mem, ok |-> TRUE], 0)

\* the state after NES::step: r the return of cpu.step, s what the PPU
\* steps left.  A panic in the CPU leaves the state as it was, a panic in
\* the PPU leaves what the CPU instruction did.
NesCommit(r, s) ==
    /\ cpu' = IF r.ok THEN cpu_sleep(r.cpu, r.cycles) ELSE cpu
    /\ memory' = IF r.ok THEN s.mem ELSE memory
    /\ ppu' = IF r.ok THEN s.ppu ELSE ppu
    /\ run' = IF r.ok /\ s.ok THEN "running" ELSE "panicked"
    /\ ret' = r.cycles
    /\ hist' = Append(hist, [op |-> decode_opcode(r.ins[1]), ins |-> r.ins,
                             before |-> cpu, after |-> r.cpu, ok |-> r.ok,
                             cycles |-> r.cycles, mem |-> memory,
                             cpu_mem |-> r.mem, ppu_ok |-> r.ok /\ s.ok,
                             ppu_ticks |-> s.ticks])
    /\ UNCHANGED <<overflow_checks, dbg>>

NesStepOf(r) == NesCommit(r, SynchronizePPU(ppu, r))

NesStep(bound) ==
    /\ run = "running"
    /\ Len(hist) < bound
    /\ NesStepOf(cpu_step(cpu, memory, overflow_checks))

MaxNesSteps == 2
\* $0200, $2000, $2002, $2005, $2007, $4014, $4016
NesCells    == {512, 8192, 8194, 8197, 8199, 16404, 16406}
\* BIT abs, STA abs, LDA abs, INC abs
NesOpcodes  == {44, 141, 173, 238}

NesInstructions == {<<b, lo(a), hi(a)>> : b \in NesOpcodes, a \in NesCells}

InitNes ==
    /\ \E first \in NesInstructions, second \in NesInstructions :
          memory = memdump(MemoryNew, 32768, first \o second)
    /\ cpu = [CPUNew(32768) EXCEPT !.a = 1]
    /\ run = "running"
    /\ overflow_checks \in BOOLEAN
    /\ ret = 0
    /\ hist = << >>
    /\ ppu = PPUNew
    /\ dbg = DebuggerNew

StepNes == NesStep(MaxNesSteps)

NextNes == StepNes

SpecNes == InitNes /\ [][NextNes]_vars

\* the I/O registers whose touch state is not Untouched in the memory m
TouchedPPU(m) ==
    {i \in DOMAIN m.ppu_ctrl_registers_status :
        m.ppu_ctrl_registers_status[i] # "Untouched"}
TouchedMisc(m) ==
    {i \in DOMAIN m.misc_ctrl_registers_status :
        m.misc_ctrl_registers_status[i] # "Untouched"}

\* C20: every I/O register touch state set by a bus access during a CPU
\* instruction is consumed by the PPU collaborator at its next step and is
\* Untouched again after that step.  Stated of each console step whose CPU
\* instruction completed: the PPU steps that follow it complete and leave
\* every touch state Untouched.
C20_TouchStateConsumed ==
    \A i \in 1..Len(hist) :
        hist[i].ok
        => /\ hist[i].ppu_ok
           /\ TouchedPPU(MemoryAfter(i)) = {}
           /\ TouchedMisc(MemoryAfter(i)) = {}

----------------------------------------------------------------------------
(* Instruction::log and Instruction::disassemble, by what they do to the   *)
(* memory they are handed: the text they format is not modelled.  SpecLog  *)
(* produces the trace line of instructions of every addressing mode.       *)

\* the disassemble_* function that the opcode's arm of disassemble calls:
\* that of its addressing mode, but for JMP and JSR absolute, which do not
\* dereference
DisassembleMode(opcode) ==
    IF opcode \in {"JMPAbs", "JSRAbs"} THEN "AbsNoref" ELSE AddrMode(opcode)

\* what producing a line leaves: the memory and whether it completed
Logged(m, ok) == [mem |-> m, ok |-> ok]

\* dereference_*_unrestricted at the resolved address a
DereferenceUnrestricted(a) ==
    Logged(read_u8_unrestricted(a.mem, a.addr).mem,
           read_u8_unrestricted(a.mem, a.addr).ok)

\* disassemble_relative: rel + len is a plain u16 addition
disassemble_relative(ins, len, c, m, oc) ==
    Logged(m, /\ add_relative(c.pc, relative(ins), oc).ok
              /\ (oc => add_relative(c.pc, relative(ins), oc).val + len
                            <= 65535))

\* disassemble_indirect formats self.indirect(memory)
disassemble_indirect(ins, m) == Logged(indirect(ins, m).mem, TRUE)

\* disassemble_indirect_x evaluates indirect_x, then the dereference, which
\* evaluates indirect_x again
disassemble_indirect_x(ins, c, m) ==
    DereferenceUnrestricted(indirect_x(ins, c, indirect_x(ins, c, m).mem))

\* disassemble_indirect_y reads the pointer, evaluates indirect_y, then the
\* dereference, which evaluates indirect_y again
disassemble_indirect_y(ins, c, m) ==
    DereferenceUnrestricted(
        indirect_y(ins, c, indirect_y(ins, c,
            read_u16_wrapped_msb(m, arg_u16(ins)).mem).mem))

DisassembleAs(mode, opcode, ins, c, m, oc) ==
    CASE mode \in {"Acc", "Imp", "Imm", "AbsNoref"} -> Logged(m, TRUE)
      [] mode = "Rel" ->
            disassemble_relative(ins, opcode_len(opcode), c, m, oc)
      [] mode = "Ind"  -> disassemble_indirect(ins, m)
      [] mode = "IndX" -> disassemble_indirect_x(ins, c, m)
      [] mode = "IndY" -> disassemble_indirect_y(ins, c, m)
      [] OTHER -> DereferenceUnrestricted(Resolve(mode, ins, c, m))

disassemble(ins, c, m, oc) ==
    DisassembleAs(DisassembleMode(decode_opcode(ins[1])),
                  decode_opcode(ins[1]), ins, c, m, oc)

\* Instruction::log: the bytes and the registers are formatted, the
\* instruction is disassembled
log(ins, c, m, oc) == disassemble(ins, c, m, oc)

MaxLogSteps == 2
\* ASL A, JMP abs, JMP (ind), LDA zp / abs / (zp,X) / imm / (zp),Y / zp,X /
\* abs,Y / abs,X, LDX zp,Y, BNE, NOP, STA abs
LogOpcodes  == {10, 76, 108, 141, 161, 165, 169, 173, 177, 181, 182, 185,
                189, 208, 234}
\* operands: a zero-page pointer, RAM, PPU registers and a mirror, the last
\* byte of a register page, OAMDMA, PRG ROM
LogOperands == {16, 512, 8192, 8194, 8447, 12298, 16404, 32768}
LogInstructions ==
    {<<b, a % 256, IF opcode_len(decode_opcode(b)) = 3 THEN a \div 256 ELSE 0>> :
        b \in LogOpcodes, a \in LogOperands}

\* the zero-page pointers at $10 and $11 hold $2002 and $4014
InitLog ==
    /\ \E pc \in {32768, 65534}, x \in {0, 1}, y \in {0, 1} :
           cpu = [CPUNew(pc) EXCEPT !.x = x, !.y = y]
    /\ \E w \in BOOLEAN :
           memory = IF w
               THEN write_u8(memdump(MemoryNew, 16, <<2, 32, 64>>),
                             8192, 1).mem
               ELSE memdump(MemoryNew, 16, <<2, 32, 64>>)
    /\ run = "running"
    /\ overflow_checks \in BOOLEAN
    /\ ret = 0
    /\ hist = << >>
    /\ ppu = PPUNew
    /\ dbg = DebuggerNew

LogCall(ins, r) ==
    /\ memory' = r.mem
    /\ run' = IF r.ok THEN "running" ELSE "panicked"
    /\ hist' = Append(hist, [op |-> "log", ins |-> ins, before |-> cpu,
                             ok |-> r.ok, mem |-> memory])
    /\ UNCHANGED <<cpu, overflow_checks, ret, ppu, dbg>>

LogStep ==
    /\ run = "running"
    /\ Len(hist) < MaxLogSteps
    /\ \E ins \in LogInstructions :
           LogCall(ins, log(ins, cpu, memory, overflow_checks))

NextLog == LogStep

SpecLog == InitLog /\ [][NextLog]_vars

\* C21: producing the trace line of any instruction in any CPU and memory
\* state leaves the touch state of every PPU register and of every APU/IO
\* register unchanged, JMP-indirect with a pointer in $2000-$401F included.
C21_LogKeepsTouchState ==
    \A i \in 1..Len(hist) :
        hist[i].op = "log"
        => /\ MemoryAfter(i).ppu_ctrl_registers_status
                  = hist[i].mem.ppu_ctrl_registers_status
           /\ MemoryAfter(i).misc_ctrl_registers_status
                  = hist[i].mem.misc_ctrl_registers_status

\* the same of every instruction but JMP-indirect
C21_LogKeepsTouchStateButIndirect ==
    \A i \in 1..Len(hist) :
        (hist[i].op = "log" /\ hist[i].ins[1] # 108)
        => /\ MemoryAfter(i).ppu_ctrl_registers_status
                  = hist[i].mem.ppu_ctrl_registers_status
           /\ MemoryAfter(i).misc_ctrl_registers_status
                  = hist[i].mem.misc_ctrl_registers_status

----------------------------------------------------------------------------
(* The run loop over any instruction: SpecSync runs NES::step on the       *)
(* programs of SpecRun, whose first instruction is any of the 151 opcodes. *)

MaxSyncSteps == 2

SyncStep == NesStep(MaxSyncSteps)

NextSync == SyncStep

SpecSync == InitRun /\ [][NextSync]_vars

\* C22: in the run loop, between the end of a CPU instruction that consumed
\* n cycles and the decode of the next instruction, the PPU is stepped
\* exactly 3 * n times.  Stated of every console step whose PPU steps all
\* completed, and a next instruction is decoded only after such a step.
C22_ThreeTicksPerCycle ==
    /\ \A i \in 1..Len(hist) :
           hist[i].ppu_ok => hist[i].ppu_ticks = 3 * hist[i].cycles
    /\ \A i \in 1..(Len(hist) - 1) : hist[i].ppu_ok

\* INC $0110 takes 6 cycles and is followed by 18 PPU steps, then PHP is
\* decoded
C22_Witness ==
    /\ Len(hist) = 2
    /\ hist[1].op = "INCAbs" /\ hist[1].cycles = 6
    /\ hist[1].ppu_ticks = 18
    /\ hist[2].op = "PHPImp" /\ hist[2].cycles = 3 /\ hist[2].ppu_ticks = 9

----------------------------------------------------------------------------
(* src/io/binutils.rs and NES::new: loading an iNES file.  A ROM file is   *)
(* [len, bytes]: its length and, sparsely, its non-zero bytes by file      *)
(* offset.  SpecLoad starts in the state NES::new leaves for a ROM of      *)
(* Roms and a program counter option of LoadPCs, and executes             *)
(* instructions from there.                                                *)

TRAINER_FLAG  == 4
TRAINER_START == 28672
TRAINER_SIZE  == 512

\* rom[o]
RomByte(rom, o) == IF o \in DOMAIN rom.bytes THEN rom.bytes[o] ELSE 0

\* INESHeader::new, the fields NES::new uses
INESHeaderNew(rom) ==
    [prg_rom_size |-> RomByte(rom, 4), flags_6 |-> RomByte(rom, 6)]

has_trainer(header) == BitAnd(header.flags_6, TRAINER_FLAG) = TRAINER_FLAG

\* memory.memdump(addr, &rom[from..to]) on cells that hold 0: the non-zero
\* bytes os of the slice are written, shift = addr - from
RECURSIVE DumpCells(_, _, _, _)
DumpCells(m, shift, rom, os) ==
    IF os = {} THEN m
    ELSE LET o == CHOOSE x \in os : TRUE
         IN  DumpCells(write_u8_unrestricted(m, shift + o, rom.bytes[o]).mem,
                       shift, rom, os \ {o})

\* ok = FALSE stands for the panic of a slice that ends past the file
memdump_slice(s, addr, rom, from, to) ==
    IF ~s.ok \/ to > rom.len THEN [mem |-> s.mem, ok |-> FALSE]
    ELSE [mem |-> DumpCells(s.mem, addr - from, rom,
                      {o \in DOMAIN rom.bytes : o >= from /\ o < to}),
          ok  |-> TRUE]

\* the trainer of NES::new
LoadTrainer(m, rom, header) ==
    IF has_trainer(header)
        THEN memdump_slice([mem |-> m, ok |-> TRUE], TRAINER_START, rom,
                           16, 528)
    ELSE [mem |-> m, ok |-> TRUE]

\* NES::new loading a single bank at $8000 only
LoadPRG_first_bank_only(s, rom, header, cursor) ==
    IF header.prg_rom_size = 2
        THEN memdump_slice(
                 memdump_slice(s, PRG_ROM_1_START, rom, cursor,
                               cursor + PRG_ROM_SIZE),
                 PRG_ROM_2_START, rom, cursor + PRG_ROM_SIZE,
                 cursor + PRG_ROM_SIZE + PRG_ROM_SIZE)
    ELSE memdump_slice(s, PRG_ROM_1_START, rom, cursor,
                       cursor + PRG_ROM_SIZE)

\* the PRG-ROM banks of NES::new, s the memory after the trainer
LoadPRG(s, rom, header, cursor) ==
    IF header.prg_rom_size = 2
        THEN memdump_slice(
                 memdump_slice(s, PRG_ROM_1_START, rom, cursor,
                               cursor + PRG_ROM_SIZE),
                 PRG_ROM_2_START, rom, cursor + PRG_ROM_SIZE,
                 cursor + PRG_ROM_SIZE + PRG_ROM_SIZE)
    ELSE memdump_slice(
             memdump_slice(s, PRG_ROM_1_START, rom, cursor,
                           cursor + PRG_ROM_SIZE),
             PRG_ROM_2_START, rom, cursor, cursor + PRG_ROM_SIZE)

\* NES::new taking the reset vector whatever the command line says
InitialPC_ignoring_override(program_counter, m) == read_u16(m, 65532).val

\* the initial program counter of NES::new; program_counter is the
\* Option<u16> of the command line
InitialPC(program_counter, m) ==
    IF program_counter.some THEN program_counter.val
    ELSE read_u16(m, 65532).val

\* the console that NES::new builds from the memory s it loaded
Console(s, program_counter) ==
    [cpu |-> CPUNew(InitialPC(program_counter, s.mem)), ppu |-> PPUNew,
     mem |-> s.mem, ok |-> s.ok]

NESNew(rom, header, program_counter) ==
    Console(LoadPRG(LoadTrainer(MemoryNew, rom, header), rom, header,
                    16 + (IF has_trainer(header) THEN TRAINER_SIZE ELSE 0)),
            program_counter)

MaxLoadSteps == 3
\* STA $8000, INC $C000, DEC $BFFC, STA $FFFC
LoadFirst   == {<<141, 0, 128>>, <<238, 0, 192>>, <<206, 252, 191>>,
                <<141, 252, 255>>}
\* INC $8003, STA $C000, LDA $8000
LoadSecond  == {<<238, 3, 128>>, <<141, 0, 192>>, <<173, 0, 128>>}
\* the reset vectors $8000 and $C003
LoadVectors == {<<0, 128>>, <<3, 192>>}
\* Option<u16>
None        == [some |-> FALSE, val |-> 0]
Some(v)     == [some |-> TRUE, val |-> v]
LoadPCs     == {None, Some(4660), Some(49152)}

SparseAt(off, seq) == [o \in off..(off + Len(seq) - 1) |-> seq[o - off + 1]]
NonZero(f) == [o \in {x \in DOMAIN f : f[x] # 0} |-> f[o]]

\* an iNES file of banks banks: the program and the vector in its first
\* bank, and for two banks a second bank that holds the byte 0x77 at its
\* start and the vector $8003; short files end inside the last bank
RomFile(trainer, banks, first, second, vector, short) ==
    [len   |-> 16 + (IF trainer THEN 512 ELSE 0) + banks * 16384
                  - (IF short THEN 1 ELSE 0),
     bytes |-> NonZero(
         SparseAt(0, <<78, 69, 83, 26, banks, 0, IF trainer THEN 4 ELSE 0>>)
         @@ (IF trainer THEN SparseAt(16, <<165>>) ELSE << >>)
         @@ SparseAt(16 + (IF trainer THEN 512 ELSE 0), first \o second)
         @@ SparseAt(16 + (IF trainer THEN 512 ELSE 0) + 16380, vector)
         @@ (IF banks = 2
                THEN SparseAt(16 + (IF trainer THEN 512 ELSE 0) + 16384,
                              <<119>>)
                     @@ SparseAt(16 + (IF trainer THEN 512 ELSE 0) + 32764,
                                 <<3, 128>>)
                ELSE << >>))]

Roms ==
    {RomFile(t, b, f, s, v, sh) :
        t \in BOOLEAN, b \in {1, 2}, f \in LoadFirst, s \in LoadSecond,
        v \in LoadVectors, sh \in BOOLEAN}

\* the state NES::new leaves, n its return
Loaded(rom, program_counter, n) ==
    /\ cpu = n.cpu
    /\ memory = n.mem
    /\ ppu = n.ppu
    /\ run = IF n.ok THEN "running" ELSE "panicked"
    /\ hist = <<[op |-> "new", rom |-> rom,
                 program_counter |-> program_counter, after |-> n.cpu,
                 ok |-> n.ok, mem |-> MemoryNew]>>

InitLoad ==
    /\ \E rom \in Roms, program_counter \in LoadPCs :
           Loaded(rom, program_counter,
                  NESNew(rom, INESHeaderNew(rom), program_counter))
    /\ overflow_checks \in BOOLEAN
    /\ ret = 0
    /\ dbg = DebuggerNew

LoadStep == CpuStep(MaxLoadSteps)

NextLoad == LoadStep

SpecLoad == InitLoad /\ [][NextLoad]_vars

\* byte i of the PRG data of the file: it follows the 16-byte header and
\* the 512-byte trainer if there is one
PRG(rom, i) ==
    RomByte(rom, 16 + (IF BitAnd(RomByte(rom, 6), 4) = 4 THEN 512 ELSE 0) + i)

\* C23: after load, the initial PC equals the command-line override when one
\* is given and otherwise the little-endian 16-bit word read at $FFFC/$FFFD,
\* which for a one-bank ROM is PRG[0x3FFC] | PRG[0x3FFD] << 8.
C23_ResetVector ==
    hist[1].ok
    => /\ hist[1].program_counter.some
          => hist[1].after.pc = hist[1].program_counter.val
       /\ ~hist[1].program_counter.some
          => /\ hist[1].after.pc
                   = le_u16(read_u8(MemoryAfter(1), 65532).val,
                            read_u8(MemoryAfter(1), 65533).val)
             /\ RomByte(hist[1].rom, 4) = 1
                => hist[1].after.pc
                       = PRG(hist[1].rom, 16380)
                         + 256 * PRG(hist[1].rom, 16381)

\* a one-bank file with a trainer and the vector $C003, loaded without an
\* override: the CPU starts at $C003
C23_Witness ==
    /\ Len(hist) = 1 /\ hist[1].ok
    /\ hist[1].program_counter = None
    /\ RomByte(hist[1].rom, 4) = 1 /\ RomByte(hist[1].rom, 6) = 4
    /\ PRG(hist[1].rom, 16380) = 3 /\ PRG(hist[1].rom, 16381) = 192
    /\ cpu.pc = 49155

\* the cells of the two PRG banks that the program could have changed: the
\* offsets the file defines, the cells that hold a byte, and the cells the
\* instructions address
PrgOffsets(rom) ==
    {o - 16 - (IF BitAnd(RomByte(rom, 6), 4) = 4 THEN 512 ELSE 0) :
        o \in {x \in DOMAIN rom.bytes :
                 x >= 16 + (IF BitAnd(RomByte(rom, 6), 4) = 4 THEN 512 ELSE 0)}}
    \cup {c[2] : c \in {d \in DOMAIN memory.bytes :
                           d[1] \in {"prg_rom_1", "prg_rom_2"}}}
    \cup {0, 1, 3, 16379, 16380, 16383}

\* C24: when prg_rom_size = 1, for every i in [0, 0x4000) a read at
\* $8000 + i and a read at $C000 + i both return PRG byte i, immediately
\* after load and after any sequence of CPU instructions.  Every cell of the
\* banks outside PrgOffsets holds 0 in the file and in memory.
C24_OneBankMirrored ==
    (hist[1].ok /\ RomByte(hist[1].rom, 4) = 1)
    => \A i \in PrgOffsets(hist[1].rom) :
           /\ i \in 0..16383
           /\ read_u8(memory, 32768 + i).val = PRG(hist[1].rom, i)
           /\ read_u8(memory, 49152 + i).val = PRG(hist[1].rom, i)
           /\ read_u8(memory, 32768 + i).mem = memory

\* STA $8000 then INC $8003 have run from $C003 on a one-bank file and the
\* opcode bytes at $8000, $8003, $C000 and $C003 are those of the file
C24_Witness ==
    /\ Len(hist) = 3 /\ hist[1].ok
    /\ RomByte(hist[1].rom, 4) = 1
    /\ hist[1].after.pc = 49155
    /\ hist[2].op = "INCAbs" /\ hist[2].ok /\ hist[2].ins = <<238, 3, 128>>
    /\ hist[3].ok
    /\ read_u8(memory, 32771).val = 238 /\ read_u8(memory, 49155).val = 238
    /\ PRG(hist[1].rom, 3) = 238

----------------------------------------------------------------------------
(* The stack page.                                                         *)

\* the cells of RAM outside $0100..$01FF and of every other bank that hold
\* a byte in the memory m
OutsideStackPage(m) ==
    {c \in DOMAIN m.bytes : ~(c[1] = "ram" /\ c[2] \in 256..511)}

\* C25: every stack push and pop, 8-bit or 16-bit and for every SP in
\* 0..255, reads and writes only addresses in the stack page $0100..$01FF.
\* Stated of the writes: a call leaves every cell outside the page as it
\* was.
C25_StackPageOnly ==
    \A i \in 1..Len(hist) :
        \A c \in OutsideStackPage(hist[i].mem)
                     \cup OutsideStackPage(MemoryAfter(i)) :
            Load(MemoryAfter(i), c[1], c[2]) = Load(hist[i].mem, c[1], c[2])

\* the same of the 8-bit helpers, which address $0100 + SP only
C25_StackPageOnlyU8 ==
    \A i \in 1..Len(hist) :
        hist[i].op \in {"stack_push_u8", "stack_pop_u8"}
        => \A c \in OutsideStackPage(hist[i].mem)
                        \cup OutsideStackPage(MemoryAfter(i)) :
               Load(MemoryAfter(i), c[1], c[2])
                   = Load(hist[i].mem, c[1], c[2])

----------------------------------------------------------------------------
(* Bytes that are no opcode: SpecDecode runs LDA #b; STA L; JMP L from     *)
(* $8000 for every byte b that decode_opcode rejects, so that the fourth   *)
(* step decodes b at L, in RAM, in a PPU register, in an APU/IO register   *)
(* or, for L = $8008 where the file holds b, in PRG ROM.                   *)

MaxDecodeSteps == 4
InvalidBytes   == Byte \ DOMAIN OpcodeEnum
\* $0200, $2004, $2007, $4000, $4016, $8008
DecodeCells    == {512, 8196, 8199, 16384, 16406, 32776}

InitDecode ==
    /\ \E b \in InvalidBytes, L \in DecodeCells :
           memory = memdump(MemoryNew, 32768,
                            <<169, b, 141, lo(L), hi(L), 76, lo(L), hi(L), b>>)
    /\ cpu = CPUNew(32768)
    /\ run = "running"
    /\ overflow_checks \in BOOLEAN
    /\ ret = 0
    /\ hist = << >>
    /\ ppu = PPUNew
    /\ dbg = DebuggerNew

\* the state after the call r of CPU::execute, where a panic keeps what the
\* call did before it: the unwinding to NES::run rolls nothing back
Unwound(r) ==
    /\ cpu' = r.cpu
    /\ memory' = r.mem
    /\ run' = IF r.ok THEN "running" ELSE "panicked"
    /\ ret' = r.cycles
    /\ hist' = Append(hist, [op |-> decode_opcode(r.ins[1]), ins |-> r.ins,
                             before |-> cpu, after |-> r.cpu, ok |-> r.ok,
                             cycles |-> r.cycles, mem |-> memory])
    /\ UNCHANGED <<overflow_checks, ppu, dbg>>

DecodeStep ==
    /\ run = "running"
    /\ Len(hist) < MaxDecodeSteps
    /\ Unwound(CPUExecute(cpu, memory, overflow_checks))

NextDecode == DecodeStep

SpecDecode == InitDecode /\ [][NextDecode]_vars

\* the steps whose program counter pointed at a byte that is no opcode
DecodedInvalid(i) == hist[i].op = "invalid"

\* C26: for each of the 105 byte values that are not among the 151
\* recognised opcodes, a CPU step whose PC points at that byte halts with a
\* fatal decode error and leaves CPU registers, memory and I/O touch state
\* as they were; no such byte is executed as a NOP or any other instruction.
C26_InvalidOpcodeHalts ==
    /\ Cardinality(InvalidBytes) = 105
    /\ \A i \in 1..Len(hist) :
           DecodedInvalid(i)
           => /\ ~hist[i].ok
              /\ hist[i].after = hist[i].before
              /\ MemoryAfter(i) = hist[i].mem

\* the same but for the touch state: the step halts, and the registers and
\* every stored byte are as they were
C26_InvalidOpcodeHaltsKeepingBytes ==
    /\ Cardinality(InvalidBytes) = 105
    /\ \A i \in 1..Len(hist) :
           DecodedInvalid(i)
           => /\ ~hist[i].ok
              /\ i = Len(hist) /\ run = "panicked"
              /\ hist[i].after = hist[i].before
              /\ cpu = hist[i].before
              /\ MemoryAfter(i).bytes = hist[i].mem.bytes

----------------------------------------------------------------------------
(* The end of the address space: SpecWrap executes one instruction that    *)
(* ends at $FFFF, a JSR there, or an RTS that pops $FFFF, with and without *)
(* the overflow checks of the build and for every stack pointer.           *)

MaxWrapSteps == 1
\* NOP at $FFFF, LDA #1 at $FFFE, LDA $0200 at $FFFD, JSR $0300 at $FFFD,
\* RTS at $8000, NOP at $8000, JSR $0300 at $8000
WrapPrograms ==
    {<<65535, <<234>>>>, <<65534, <<169, 1>>>>, <<65533, <<173, 0, 2>>>>,
     <<65533, <<32, 0, 3>>>>, <<32768, <<96>>>>, <<32768, <<234>>>>,
     <<32768, <<32, 0, 3>>>>}
\* the word on the stack when the program starts
WrapWords == {4660, 33023, 65535}

\* the CPU at the program, the program in memory, after the push s of a
\* word
WrapStart(prog, s) ==
    /\ cpu = [s.cpu EXCEPT !.pc = prog[1]]
    /\ memory = memdump(s.mem, prog[1], prog[2])

InitWrap ==
    /\ \E prog \in WrapPrograms, sp \in Byte, w \in WrapWords :
           WrapStart(prog, stack_push_u16([CPUNew(0) EXCEPT !.sp = sp],
                                          MemoryNew, w))
    /\ run = "running"
    /\ overflow_checks \in BOOLEAN
    /\ ret = 0
    /\ hist = << >>
    /\ ppu = PPUNew
    /\ dbg = DebuggerNew

WrapStep == CpuStep(MaxWrapSteps)

NextWrap == WrapStep

SpecWrap == InitWrap /\ [][NextWrap]_vars

\* PC arithmetic of the step h is modular, m the memory after it
ModularPC(h, m) ==
    /\ h.ok
    /\ h.op \in {"NOPImp", "LDAImm", "LDAAbs"}
       => h.after.pc = (h.before.pc + opcode_len(h.op)) % 65536
    /\ h.op = "JSRAbs"
       => stack_pop_u16(h.after, m).val = (h.before.pc + 2) % 65536
    /\ h.op = "RTSImp"
       => h.after.pc = (stack_pop_u16(h.before, h.mem).val + 1) % 65536

\* C27: no instruction raises an arithmetic overflow error for any PC and
\* register values: an instruction of length L that falls through at
\* address P leaves PC = (P + L) mod 65536, JSR pushes (P + 2) mod 65536 and
\* RTS sets PC to (popped + 1) mod 65536.
C27_ModularPC ==
    \A i \in 1..Len(hist) :
        hist[i].op \in {"NOPImp", "LDAImm", "LDAAbs", "JSRAbs", "RTSImp"}
        => ModularPC(hist[i], MemoryAfter(i))

\* the same in a build without overflow checks
C27_ModularPCWithoutChecks ==
    ~overflow_checks
    => \A i \in 1..Len(hist) :
           hist[i].op \in {"NOPImp", "LDAImm", "LDAAbs", "JSRAbs", "RTSImp"}
           => ModularPC(hist[i], MemoryAfter(i))

----------------------------------------------------------------------------
(* The debugger (src/debugger/debugger.rs), the readline thread and the    *)
(* debug loop of NES::run (src/nes/nes.rs).                                *)
(*                                                                         *)
(* A line is what parser::input_to_arguments and getopts make of the text  *)
(* typed: word is its first argument in lower case ("" for a line without  *)
(* arguments), peek the value of -p (10 when absent) and addr the free     *)
(* argument as arithmetic::hex_to_u16 reads it.  Both channels are         *)
(* sync_channel(1): a send waits while one message is buffered, and fails  *)
(* once the other end is gone.                                             *)

\* number of 16-byte rows dumped when -p is absent
DefaultPeek == 10

Line(word, peek, addr) == [word |-> word, peek |-> peek, addr |-> addr]

\* Debugger::interpret: the Command of a line, "Unknown" for None
interpret(line) ==
    CASE line.word \in {"help"}          -> "Help"
      [] line.word \in {"exit"}          -> "Exit"
      [] line.word \in {"stop", "s"}     -> "Stop"
      [] line.word \in {"continue", "c"} -> "Continue"
      [] line.word \in {"dump", "d"}     -> "Dump"
      [] line.word \in {"objdump", "od"} -> "Objdump"
      [] OTHER                           -> "Unknown"

\* what a command leaves: the debugger and the memory
Ran(d, m) == [dbg |-> d, mem |-> m]

\* sender.send(code) that does not have to wait: the code is buffered, or
\* the send fails because the reader thread has ended ("done") and its
\* Receiver is dropped
send(d, code) ==
    IF d.reader = "done" THEN d
    ELSE [d EXCEPT !.sender = Append(d.sender, code)]

\* a send that returns only when the slot has room, whatever became of the
\* reader
CanSend_only_with_room(d) == Len(d.sender) < 1

\* whether sender.send returns at once
CanSend(d) == d.reader = "done" \/ Len(d.sender) < 1

execute_help(d, m) == Ran(d, m)

execute_exit(d, m) == Ran(send([d EXCEPT !.shutdown = TRUE], 1), m)

execute_stop(d, m) == Ran([d EXCEPT !.stepping = FALSE], m)

execute_continue(d, m) == Ran([d EXCEPT !.stepping = TRUE], m)

\* a row of execute_dump read with the restricted read_u8
RECURSIVE dump_row_restricted(_, _, _)
dump_row_restricted(s, addr, n) ==
    IF n = 0 \/ ~s.ok THEN s
    ELSE dump_row_restricted(read_u8(s.mem, addr), (addr + 1) % 65536, n - 1)

\* a row of execute_dump: the reads of n bytes from addr on, the address
\* wrapping; s is the read before
RECURSIVE dump_row(_, _, _)
dump_row(s, addr, n) ==
    IF n = 0 \/ ~s.ok THEN s
    ELSE dump_row(read_u8_unrestricted(s.mem, addr), (addr + 1) % 65536,
                  n - 1)

\* the rows idx..peek-1 of execute_dump
RECURSIVE dump_rows(_, _, _, _)
dump_rows(s, addr, idx, peek) ==
    IF idx >= peek \/ ~s.ok THEN s
    ELSE dump_rows(dump_row(s, (addr + ((idx * 16) % 65536)) % 65536, 16),
                   addr, idx + 1, peek)

execute_dump(d, m, c, line) ==
    Ran(d, dump_rows([val |-> 0, mem |-> m, ok |-> TRUE],
                     IF line.addr.some THEN line.addr.val ELSE c.pc, 0,
                     line.peek).mem)

execute_objdump(d, m) == Ran(d, m)

\* Debugger::execute_command, and the else branch of step for None
execute_command(d, m, c, line, command) ==
    CASE command = "Help"     -> execute_help(d, m)
      [] command = "Exit"     -> execute_exit(d, m)
      [] command = "Stop"     -> execute_stop(d, m)
      [] command = "Continue" -> execute_continue(d, m)
      [] command = "Dump"     -> execute_dump(d, m, c, line)
      [] command = "Objdump"  -> execute_objdump(d, m)
      [] OTHER                -> Ran(d, m)

\* sender.send(0) of Debugger::step: at "ack" the step waits in the send
acknowledge(e) ==
    IF CanSend(e.dbg) THEN Ran(send(e.dbg, 0), e.mem)
    ELSE Ran([e.dbg EXCEPT !.at = "ack"], e.mem)

\* the branch Ok(input) of Debugger::step told only for the lines that are
\* commands
Received_acknowledging_commands(d, m, c, line) ==
    IF interpret(line) = "Unknown" THEN Ran(d, m)
    ELSE acknowledge(execute_command(d, m, c, line, interpret(line)))

\* the branch Ok(input) of Debugger::step
Received(d, m, c, line) ==
    acknowledge(execute_command(d, m, c, line, interpret(line)))

\* the match on receiver.try_recv() of Debugger::step
try_recv(d, m, c) ==
    IF d.receiver = << >> THEN Ran(d, m)
    ELSE Received([d EXCEPT !.receiver = Tail(d.receiver)], m, c,
                  Head(d.receiver))

\* how the loop of NES::run goes on after Debugger::step returned
Loop(d, quit) ==
    IF d.shutdown THEN "shutdown" ELSE IF quit THEN "quit" ELSE "running"

\* the rest of Debugger::step with stepping on: nes.step(), r the return of
\* cpu.step and s what the PPU steps left
DebuggerCommit(e, quit, r, s) ==
    /\ cpu' = IF r.ok THEN cpu_sleep(r.cpu, r.cycles) ELSE cpu
    /\ memory' = IF r.ok THEN s.mem ELSE e.mem
    /\ ppu' = IF r.ok THEN s.ppu ELSE ppu
    /\ run' = IF r.ok /\ s.ok THEN Loop(e.dbg, quit) ELSE "panicked"
    /\ dbg' = e.dbg
    /\ ret' = e.dbg.shutdown

DebuggerStepped(e, quit, r) ==
    DebuggerCommit(e, quit, r, SynchronizePPU(ppu, r))

\* the rest of Debugger::step, from `if self.stepping` on, and the poll of
\* the loop: e what the step has done so far
DebuggerTail(e, quit) ==
    /\ IF e.dbg.stepping
       THEN DebuggerStepped(e, quit, cpu_step(cpu, e.mem, overflow_checks))
       ELSE /\ memory' = e.mem
            /\ run' = Loop(e.dbg, quit)
            /\ dbg' = e.dbg
            /\ ret' = e.dbg.shutdown
            /\ UNCHANGED <<cpu, ppu>>
    /\ UNCHANGED <<overflow_checks, hist>>

\* Debugger::step up to the point e, where it either waits in send or goes on
DebuggerAfter(e, quit) ==
    IF e.dbg.at = "ack"
    THEN /\ dbg' = e.dbg
         /\ memory' = e.mem
         /\ UNCHANGED <<cpu, ppu, run, ret, overflow_checks, hist>>
    ELSE DebuggerTail(e, quit)

\* one iteration of `while !debugger.step(self) { quit = poll_sdl_events() }`
DebuggerStep ==
    /\ run = "running"
    /\ dbg.at = "top"
    /\ \E quit \in BOOLEAN : DebuggerAfter(try_recv(dbg, memory, cpu), quit)

\* the send(0) that waited returns, and the iteration ends
DebuggerResume ==
    /\ run = "running"
    /\ dbg.at = "ack"
    /\ CanSend(dbg)
    /\ \E quit \in BOOLEAN :
          DebuggerTail(Ran(send([dbg EXCEPT !.at = "top"], 0), memory), quit)

DebugWords == {"help", "exit", "stop", "c", "od", "bogus", ""}
DebugLines ==
    {Line(w, DefaultPeek, None) : w \in DebugWords}
    \cup {Line("dump", DefaultPeek, None), Line("d", 1, Some(8192))}

\* readline returned Ok(line): the line is sent and the thread waits for the
\* code.  Once the loop has ended the receiver is dropped at some point,
\* and from then on the send fails and the thread ends.
ReaderLine ==
    /\ dbg.reader = "prompt"
    /\ \/ \E line \in DebugLines :
             dbg' = [dbg EXCEPT !.receiver = Append(dbg.receiver, line),
                                !.reader = "waiting", !.line = line,
                                !.got = "None"]
       \/ /\ run # "running"
          /\ dbg' = [dbg EXCEPT !.reader = "leaving"]
    /\ UNCHANGED <<cpu, memory, run, overflow_checks, ret, hist, ppu>>

\* readline returned Interrupted, Eof or an error: "exit" is sent and the
\* thread ends
ReaderEnd ==
    /\ dbg.reader = "prompt"
    /\ dbg' = IF run \in {"running"}
              THEN [dbg EXCEPT !.receiver =
                                   Append(dbg.receiver,
                                          Line("exit", DefaultPeek, None)),
                               !.reader = "leaving"]
              ELSE [dbg EXCEPT !.reader = "leaving"]
    /\ UNCHANGED <<cpu, memory, run, overflow_checks, ret, hist, ppu>>

\* rx.recv() of the thread returns: a code, or Err once the loop has ended
\* and nothing is buffered
ReaderRecv ==
    /\ dbg.reader = "waiting"
    /\ \/ /\ dbg.sender # << >>
          /\ dbg' = [dbg EXCEPT !.sender = Tail(dbg.sender),
                                !.got = IF Head(dbg.sender) = 1 THEN "Exit"
                                        ELSE "Ran",
                                !.reader = IF Head(dbg.sender) = 1
                                               THEN "leaving"
                                           ELSE "prompt"]
       \/ /\ dbg.sender = << >>
          /\ run # "running"
          /\ dbg' = [dbg EXCEPT !.got = "Err", !.reader = "leaving"]
    /\ UNCHANGED <<cpu, memory, run, overflow_checks, ret, hist, ppu>>

\* the thread has left its loop: it saves the history and ends, which drops
\* its Receiver
ReaderExit ==
    /\ dbg.reader = "leaving"
    /\ dbg' = [dbg EXCEPT !.reader = "done"]
    /\ UNCHANGED <<cpu, memory, run, overflow_checks, ret, hist, ppu>>

\* STA $0200; LDA $2002; JMP $8000 at $8000, run with A = 1
DebugProgram == <<141, 0, 2, 173, 2, 32, 76, 0, 128>>

InitDebug ==
    /\ memory = memdump(MemoryNew, 32768, DebugProgram)
    /\ cpu = [CPUNew(32768) EXCEPT !.a = 1]
    /\ run = "running"
    /\ overflow_checks = TRUE
    /\ ret = FALSE
    /\ hist = << >>
    /\ ppu = PPUNew
    /\ dbg = DebuggerNew

NextDebug == DebuggerStep \/ DebuggerResume \/ ReaderLine \/ ReaderEnd
             \/ ReaderRecv \/ ReaderExit

SpecDebug == InitDebug /\ [][NextDebug]_vars

\* the step dispatches continue
DispatchesContinue ==
    /\ dbg.at = "top"
    /\ dbg.receiver # << >>
    /\ interpret(Head(dbg.receiver)) = "Continue"

\* C28: while stepping is false a debugger step executes no CPU instruction
\* and no PPU tick: registers, memory bytes and I/O register touch state are
\* left as they were, also when the step dispatches help, stop, dump or
\* objdump.
C28_StoppedStepKeepsMachine ==
    [][~dbg.stepping /\ ~DispatchesContinue
       => UNCHANGED <<cpu, memory, ppu>>]_vars

\* a dump of the PPU registers was run while stopped, after the program had
\* touched one of them
C28_Witness ==
    /\ ~dbg.stepping
    /\ dbg.got = "Ran"
    /\ dbg.line = Line("d", 1, Some(8192))
    /\ memory.ppu_ctrl_registers_status # MemoryNew.ppu_ctrl_registers_status

\* the guards of DebuggerStep and of DebuggerResume.  Each of the two actions
\* can change the state whenever its guard holds (an iteration can end with
\* the host quitting, a send that returns leaves "ack"), so the guard is
\* ENABLED <<A>>_vars.
DebuggerStepEnabled == run = "running" /\ dbg.at = "top"
DebuggerResumeEnabled == run = "running" /\ dbg.at = "ack" /\ CanSend(dbg)

\* The scheduling the code relies on: the reader thread takes a code that
\* is there for it and ends once it has left its loop, the loop of NES::run
\* goes on to its next iteration, and a send that can return returns.  The last two conjuncts are
\* WF_vars(DebuggerStep) and WF_vars(DebuggerResume) with ENABLED written
\* out as the guard.
FairDebug ==
    /\ SpecDebug
    /\ WF_vars(ReaderRecv)
    /\ WF_vars(ReaderExit)
    /\ []<>(~DebuggerStepEnabled) \/ []<><<DebuggerStep>>_vars
    /\ []<>(~DebuggerResumeEnabled) \/ []<><<DebuggerResume>>_vars

\* C29: every line the reader thread hands over, be it a command, an unknown
\* command or an empty line, with stepping on or off, is eventually followed
\* by a code from the emulator that releases the waiting reader, as long as
\* the run loop keeps iterating.
C29_LineAcknowledged ==
    (dbg.reader = "waiting") ~> (dbg.got \in {"Ran", "Exit"} \/ run # "running")

\* the reader was released after an unknown command sent while stopped
C29_Witness ==
    /\ ~dbg.stepping
    /\ dbg.reader = "prompt"
    /\ dbg.got = "Ran"
    /\ interpret(dbg.line) = "Unknown"
    /\ run = "running"

\* C30: debugger-exit is a flag polled at the top of the run loop: once the
\* debugger has dispatched exit and shutdown is set, the loop ends without
\* decoding or executing one more CPU instruction.
C30_ExitRunsNoInstruction ==
    [][dbg'.shutdown => UNCHANGED <<cpu, memory, ppu>>]_vars

\* what holds instead: no instruction runs after an exit dispatched while
\* stepping is off
C30_ExitWhileStoppedRunsNoInstruction ==
    [][dbg'.shutdown /\ ~dbg'.stepping => UNCHANGED <<cpu, memory, ppu>>]_vars

----------------------------------------------------------------------------
(* Startup: init of src/main.rs from the header check on.                  *)

INES_IDENTIFIER == <<78, 69, 83, 26>>
EXIT_INVALID_ROM == 2

\* INESHeader::new comparing the first three bytes of the identifier only
INESHeaderResult_three_bytes(rom) ==
    IF rom.len < 16 THEN [ok |-> FALSE, header |-> INESHeaderNew(rom)]
    ELSE IF <<RomByte(rom, 0), RomByte(rom, 1), RomByte(rom, 2)>>
            # SubSeq(INES_IDENTIFIER, 1, 3)
        THEN [ok |-> FALSE, header |-> INESHeaderNew(rom)]
    ELSE [ok |-> TRUE, header |-> INESHeaderNew(rom)]

\* INESHeader::new: ok = FALSE is Err(invalid_header)
INESHeaderResult(rom) ==
    IF rom.len < 16 THEN [ok |-> FALSE, header |-> INESHeaderNew(rom)]
    ELSE IF <<RomByte(rom, 0), RomByte(rom, 1), RomByte(rom, 2),
              RomByte(rom, 3)>> # INES_IDENTIFIER
        THEN [ok |-> FALSE, header |-> INESHeaderNew(rom)]
    ELSE [ok |-> TRUE, header |-> INESHeaderNew(rom)]

\* the longest file of StartupRoms that is not a whole ROM
MaxStartupLen == 18
\* the first bytes of a file: the identifier, the identifier with one byte
\* changed, and "nes" in lower case
StartupHeads ==
    {<<78, 69, 83, 26, 1, 0, 0>>, <<79, 69, 83, 26, 1, 0, 0>>,
     <<78, 68, 83, 26, 1, 0, 0>>, <<78, 69, 0, 26, 1, 0, 0>>,
     <<78, 69, 83, 27, 1, 0, 0>>, <<110, 101, 115, 26, 1, 0, 0>>,
     <<0, 0, 0, 0, 1, 0, 0>>}

\* the first n bytes of head, as a file of n bytes
Truncated(head, n) ==
    [len |-> n,
     bytes |-> NonZero(SparseAt(0, SubSeq(head, 1,
                                          IF n < Len(head) THEN n
                                          ELSE Len(head))))]

StartupRoms ==
    {Truncated(h, n) : h \in StartupHeads, n \in 0..MaxStartupLen}
    \cup {RomFile(FALSE, 1, <<141, 0, 128>>, <<238, 3, 128>>, <<0, 128>>,
                  FALSE)}

\* before init has read the ROM there is no console: the machine variables
\* hold what the constructors give
InitStartup ==
    /\ \E rom \in StartupRoms, program_counter \in LoadPCs :
          hist = <<[op |-> "args", rom |-> rom,
                    program_counter |-> program_counter]>>
    /\ cpu = CPUNew(0)
    /\ memory = MemoryNew
    /\ run = "starting"
    /\ overflow_checks \in BOOLEAN
    /\ ret = 0
    /\ ppu = PPUNew
    /\ dbg = DebuggerNew

\* init from INESHeader::new on, h the result of INESHeader::new and n what
\* NES::new returns for the header: Err ends init with EXIT_INVALID_ROM
\* before NES::new is called
StartupCommit(h, n) ==
    /\ cpu' = IF h.ok THEN n.cpu ELSE cpu
    /\ memory' = IF h.ok THEN n.mem ELSE memory
    /\ ppu' = IF h.ok THEN n.ppu ELSE ppu
    /\ run' = IF ~h.ok THEN "exited" ELSE IF n.ok THEN "running"
              ELSE "panicked"
    /\ ret' = IF h.ok THEN 0 ELSE EXIT_INVALID_ROM
    /\ hist' = Append(hist, [op |-> "init", header_ok |-> h.ok])
    /\ UNCHANGED <<overflow_checks, dbg>>

StartupOf(h) ==
    StartupCommit(h, NESNew(hist[1].rom, h.header, hist[1].program_counter))

Startup ==
    /\ run = "starting"
    /\ StartupOf(INESHeaderResult(hist[1].rom))

NextStartup == Startup

SpecStartup == InitStartup /\ [][NextStartup]_vars

\* the file is shorter than 16 bytes or does not start with 4E 45 53 1A
InvalidRom(rom) ==
    \/ rom.len < 16
    \/ \E k \in 0..3 : RomByte(rom, k) # INES_IDENTIFIER[k + 1]

\* C31: for every ROM shorter than 16 bytes or whose first four bytes are
\* not 4E 45 53 1A header construction returns the InvalidHeader error and
\* startup ends with exit code 2 before any emulator state is built; for
\* every other ROM header construction succeeds.
C31_InvalidHeaderExits ==
    Len(hist) = 2
    => /\ hist[2].header_ok <=> ~InvalidRom(hist[1].rom)
       /\ ~hist[2].header_ok
          => /\ run = "exited"
             /\ ret = EXIT_INVALID_ROM
             /\ cpu = CPUNew(0) /\ memory = MemoryNew /\ ppu = PPUNew

\* a file of 17 bytes whose fourth byte is 1B instead of 1A was refused
C31_Witness ==
    /\ Len(hist) = 2
    /\ hist[1].rom.len = 17
    /\ RomByte(hist[1].rom, 3) = 27
    /\ run = "exited"

----------------------------------------------------------------------------
(* A long run of NES::step, for the running count of PPU dots.             *)

\* number of NES::step calls in one behaviour of SpecDots
MaxDotSteps == 30
\* NOP; INC $0200; PHP; LDA $02FF,X; ASL A
DotInstructions ==
    {<<234>>, <<238, 0, 2>>, <<8>>, <<189, 255, 2>>, <<10>>}

\* a loop at $8000: two instructions and JMP $8000, run with X = 1
InitDots ==
    /\ \E first \in DotInstructions, second \in DotInstructions :
          memory = memdump(MemoryNew, 32768, first \o second \o <<76, 0, 128>>)
    /\ cpu = [CPUNew(32768) EXCEPT !.x = 1]
    /\ run = "running"
    /\ overflow_checks \in BOOLEAN
    /\ ret = 0
    /\ hist = << >>
    /\ ppu = PPUNew
    /\ dbg = DebuggerNew

DotStep == NesStep(MaxDotSteps)

NextDots == DotStep

SpecDots == InitDots /\ [][NextDots]_vars

\* the sum of the cycle counts the first i steps returned
RECURSIVE CyclesSoFar(_)
CyclesSoFar(i) == IF i = 0 THEN 0 ELSE hist[i].cycles + CyclesSoFar(i - 1)

\* the number of PPU::step calls made in the first i steps
RECURSIVE TicksSoFar(_)
TicksSoFar(i) == IF i = 0 THEN 0 ELSE hist[i].ppu_ticks + TicksSoFar(i - 1)

\* C32: after every CPU step the cycle accumulator is 0 again, ppu_dots lies
\* in 0..340 and equals 3 times the sum of the cycle counts returned by all
\* steps so far, modulo 341, which is the number of PPU ticks the run loop
\* has performed, modulo 341.
C32_DotsFollowCycles ==
    Len(hist) > 0 /\ hist[Len(hist)].ok /\ hist[Len(hist)].ppu_ok
    => /\ cpu.cycles = 0
       /\ cpu = hist[Len(hist)].after
       /\ cpu.ppu_dots \in 0..340
       /\ cpu.ppu_dots = (3 * CyclesSoFar(Len(hist))) % 341
       /\ cpu.ppu_dots = TicksSoFar(Len(hist)) % 341

\* the count has passed 341 and started again
C32_Witness ==
    /\ Len(hist) > 0
    /\ hist[Len(hist)].ppu_ok
    /\ 3 * CyclesSoFar(Len(hist)) > 341
    /\ cpu.ppu_dots < 10

----------------------------------------------------------------------------
(* Touch state of the APU and I/O registers: SpecMisc makes any sequence   *)
(* of restricted and unrestricted reads and writes of them, from a memory  *)
(* whose registers are Untouched.                                          *)

MaxMiscOps == 3
\* $4000, $4014, $4016, $401F
MiscAddrs  == {16384, 16404, 16406, 16415}

InitMisc ==
    /\ cpu = CPUNew(0)
    /\ memory = MemoryNew
    /\ run = "running"
    /\ overflow_checks \in BOOLEAN
    /\ ret = 0
    /\ hist = << >>
    /\ ppu = PPUNew
    /\ dbg = DebuggerNew

MiscRead ==
    \E a \in MiscAddrs :
        BusCall(MaxMiscOps, "read_u8", a, 0, read_u8(memory, a))

MiscWrite ==
    \E a \in MiscAddrs :
        BusCall(MaxMiscOps, "write_u8", a, 90, write_u8(memory, a, 90))

MiscReadUnrestricted ==
    \E a \in MiscAddrs :
        BusCall(MaxMiscOps, "read_u8_unrestricted", a, 0,
                read_u8_unrestricted(memory, a))

NextMisc == MiscRead \/ MiscWrite \/ MiscReadUnrestricted

SpecMisc == InitMisc /\ [][NextMisc]_vars

\* the touch state of the register at $4000 + reg before and after the
\* i-th call
MiscBefore(i, reg) == hist[i].mem.misc_ctrl_registers_status[reg]
MiscAfter(i, reg)  == MemoryAfter(i).misc_ctrl_registers_status[reg]

\* C33: for each APU/IO register ($4000-$401F), a Read access to a register
\* whose touch state is Written does not override the written flag: the
\* state stays Written.
C33_ReadKeepsWritten ==
    \A i \in 1..Len(hist) :
        (/\ hist[i].op = "read_u8"
         /\ hist[i].addr \in 16384..16415
         /\ MiscBefore(i, hist[i].addr - 16384) = "Written")
        => MiscAfter(i, hist[i].addr - 16384) = "Written"

\* what holds instead: an unrestricted read keeps the touch state, and a
\* restricted read leaves Read whatever the state was
C33_ReadMarksRead ==
    \A i \in 1..Len(hist) :
        hist[i].addr \in 16384..16415
        => /\ hist[i].op = "read_u8"
              => MiscAfter(i, hist[i].addr - 16384) = "Read"
           /\ hist[i].op = "read_u8_unrestricted"
              => MiscAfter(i, hist[i].addr - 16384)
                    = MiscBefore(i, hist[i].addr - 16384)

----------------------------------------------------------------------------
(* The 16-bit stack helpers against two calls of the 8-bit ones, on the    *)
(* calls of SpecStack.                                                     *)

\* the CPU of SpecStack with the stack pointer sp
StackCpu(sp) == [CPUNew(0) EXCEPT !.sp = sp]

\* stack_push_u8 of the high byte of v, then of its low byte
PushTwoU8(s, v) == stack_push_u8(s.cpu, s.mem, lo(v))

PushHighThenLow(c, m, v) == PushTwoU8(stack_push_u8(c, m, hi(v)), v)

\* the second stack_pop_u8, joined with the byte low that the first returned
PopSecondU8(low, s) == [cpu |-> s.cpu, mem |-> s.mem, val |-> le_u16(low, s.val)]

PopHighAfter(s) == PopSecondU8(s.val, stack_pop_u8(s.cpu, s.mem))

\* two stack_pop_u8 calls, the low byte first
PopLowThenHigh(c, m) == PopHighAfter(stack_pop_u8(c, m))

\* the i-th call did what the two 8-bit calls do from the same state
AsTwoU8(i) ==
    /\ hist[i].op = "stack_push_u16"
       => /\ MemoryAfter(i)
               = PushHighThenLow(StackCpu(hist[i].sp_before), hist[i].mem,
                                 hist[i].val).mem
          /\ hist[i].sp_after
               = PushHighThenLow(StackCpu(hist[i].sp_before), hist[i].mem,
                                 hist[i].val).cpu.sp
    /\ hist[i].op = "stack_pop_u16"
       => /\ hist[i].val
               = PopLowThenHigh(StackCpu(hist[i].sp_before), hist[i].mem).val
          /\ hist[i].sp_after
               = PopLowThenHigh(StackCpu(hist[i].sp_before),
                                hist[i].mem).cpu.sp

\* C34: for every 16-bit value and every SP in 0..255, push_u16(v) has the
\* same effect on memory and SP as push_u8(high byte) followed by
\* push_u8(low byte), and pop_u16 returns the same word as two pop_u8 calls,
\* the low byte first.
C34_U16AsTwoU8 == \A i \in 1..Len(hist) : AsTwoU8(i)

\* what holds instead: the same, but for a push at SP = $00 and a pop at
\* SP = $FE, where the 16-bit helpers leave the stack page
C34_U16AsTwoU8InsidePage ==
    \A i \in 1..Len(hist) :
        ~(hist[i].op = "stack_push_u16" /\ hist[i].sp_before = 0)
        /\ ~(hist[i].op = "stack_pop_u16" /\ hist[i].sp_before = 254)
        => AsTwoU8(i)

----------------------------------------------------------------------------
(* Instructions at the end of the address space: SpecEdge runs one         *)
(* instruction that lies at or reaches $FFFF, for index registers that     *)
(* carry an address past it.                                               *)

MaxEdgeSteps == 1
\* NOP at $FFFF, LDA #1 at $FFFF, LDA #1 at $FFFE, LDA $0200 at $FFFE,
\* LDA $0200 at $FFFD, and at $8000: LDA $FFFF, LDA $FFFF,X, LDA $FFFF,Y,
\* JMP ($FFFF), LDA ($FF),Y, LDA ($FF,X), STA $FFFF,X, INC $FFFF,X
EdgePrograms ==
    {<<65535, <<234>>>>, <<65535, <<169, 1>>>>, <<65534, <<169, 1>>>>,
     <<65534, <<173, 0, 2>>>>, <<65533, <<173, 0, 2>>>>,
     <<32768, <<173, 255, 255>>>>, <<32768, <<189, 255, 255>>>>,
     <<32768, <<185, 255, 255>>>>, <<32768, <<108, 255, 255>>>>,
     <<32768, <<177, 255>>>>, <<32768, <<161, 255>>>>,
     <<32768, <<157, 255, 255>>>>, <<32768, <<254, 255, 255>>>>}
EdgeIndexes == {0, 1, 255}

\* the pointer $FFFF at $00FF/$0000 and at $0000/$0001, then the program
InitEdge ==
    /\ \E prog \in EdgePrograms, x \in EdgeIndexes, y \in EdgeIndexes :
          /\ cpu = [CPUNew(prog[1]) EXCEPT !.x = x, !.y = y]
          /\ memory = memdump(memdump(MemoryNew, 0, <<255, 255>>),
                              prog[1], prog[2])
    /\ run = "running"
    /\ overflow_checks \in BOOLEAN
    /\ ret = 0
    /\ hist = << >>
    /\ ppu = PPUNew
    /\ dbg = DebuggerNew

EdgeStep == CpuStep(MaxEdgeSteps)

NextEdge == EdgeStep

SpecEdge == InitEdge /\ [][NextEdge]_vars

\* the byte at pc is an opcode
ValidOpcodeAt(pc, m) == decode_opcode(read_u8_unrestricted(m, pc).val) # "invalid"

\* C35: BusMapFailure is unreachable from program content: for every PC in
\* 0..$FFFF, every register state and every memory content, decoding and
\* executing one instruction presents the bus only with addresses in
\* 0..$FFFF, the operand fetches at PC+1 and PC+2 included, so that no bus
\* access of the step fails to map.
C35_NoBusMapFailure ==
    \A i \in 1..Len(hist) :
        ValidOpcodeAt(hist[i].before.pc, hist[i].mem)
        => /\ parse(hist[i].before.pc, hist[i].mem).ok
           /\ ~overflow_checks => hist[i].ok

\* what holds instead: no access of the step fails to map when the whole
\* instruction lies at or below $FFFF
C35_NoBusMapFailureBelowEnd ==
    \A i \in 1..Len(hist) :
        (/\ ValidOpcodeAt(hist[i].before.pc, hist[i].mem)
         /\ hist[i].before.pc + opcode_len(hist[i].op) <= 65536)
        => /\ parse(hist[i].before.pc, hist[i].mem).ok
           /\ ~overflow_checks => hist[i].ok

\* ---------------------------------------------------------------------
\* The address decoder over the whole address space.  The address is an
\* input of the run; Memory::map is then called on it with each memory
\* operation, up to MaxMapCalls times.

MaxMapCalls == 1

InitMap ==
    /\ cpu = CPUNew(0)
    /\ memory = MemoryNew
    /\ run = "running"
    /\ overflow_checks = TRUE
    /\ ret = 0
    /\ ppu = PPUNew
    /\ dbg = DebuggerNew
    /\ \E addr \in Word : hist = <<[op |-> "addr", addr |-> addr]>>

MapCommit(operation, r) ==
    /\ hist' = Append(hist, [op |-> "map", addr |-> hist[1].addr,
                             arg |-> operation, bank |-> r.bank,
                             idx |-> r.idx, ok |-> r.ok, mem |-> memory])
    /\ memory' = r.mem
    /\ run' = IF r.ok THEN run ELSE "panicked"
    /\ UNCHANGED <<cpu, overflow_checks, ret, ppu, dbg>>

MapCall(operation) ==
    /\ run = "running"
    /\ Len(hist) < 1 + MaxMapCalls
    /\ MapCommit(operation, map(memory, hist[1].addr, operation))

MapRead == MapCall("Read")

MapWrite == MapCall("Write")

MapNop == MapCall("Nop")

NextMap == MapRead \/ MapWrite \/ MapNop

SpecMap == InitMap /\ [][NextMap]_vars

\* The partitions of memory.rs: the address ranges an arm of Memory::map
\* matches, the bank the arm answers with and the size of that bank.
Partitions ==
    {[first |-> RAM_START_ADDR, last |-> RAM_END_ADDR,
      bank |-> "ram", size |-> RAM_SIZE],
     [first |-> RAM_MIRROR_START, last |-> RAM_MIRROR_END,
      bank |-> "ram", size |-> RAM_SIZE],
     [first |-> PPU_CTRL_REGISTERS_START, last |-> PPU_CTRL_REGISTERS_END,
      bank |-> "ppu_ctrl_registers", size |-> PPU_CTRL_REGISTERS_SIZE],
     [first |-> PPU_CTRL_REGISTERS_MIRROR_START,
      last |-> PPU_CTRL_REGISTERS_MIRROR_END,
      bank |-> "ppu_ctrl_registers", size |-> PPU_CTRL_REGISTERS_SIZE],
     [first |-> MISC_CTRL_REGISTERS_START, last |-> MISC_CTRL_REGISTERS_END,
      bank |-> "misc_ctrl_registers", size |-> MISC_CTRL_REGISTERS_SIZE],
     [first |-> EXPANSION_ROM_START, last |-> EXPANSION_ROM_END,
      bank |-> "expansion_rom", size |-> EXPANSION_ROM_SIZE],
     [first |-> SRAM_START, last |-> SRAM_END,
      bank |-> "sram", size |-> SRAM_SIZE],
     [first |-> PRG_ROM_1_START, last |-> PRG_ROM_1_END,
      bank |-> "prg_rom_1", size |-> PRG_ROM_SIZE],
     [first |-> PRG_ROM_2_START, last |-> PRG_ROM_2_END,
      bank |-> "prg_rom_2", size |-> PRG_ROM_SIZE]}

Matching(addr) == {p \in Partitions : addr >= p.first /\ addr <= p.last}

\* C36: for every address of 0..$FFFF and every memory operation, exactly
\* one arm of the decoder matches, the call does not panic, and it answers
\* with that arm's bank and an index strictly below the size of the bank.
C36_DecoderSelectsOneBank ==
    \A i \in 2..Len(hist) :
        /\ Cardinality(Matching(hist[i].addr)) = 1
        /\ hist[i].ok
        /\ \A p \in Matching(hist[i].addr) :
              /\ hist[i].bank = p.bank
              /\ hist[i].idx >= 0
              /\ hist[i].idx < p.size

\* The last address of the expansion ROM was decoded to the last cell of
\* its bank.
C36_Witness ==
    /\ Len(hist) >= 2
    /\ hist[2].addr = EXPANSION_ROM_END
    /\ hist[2].bank = "expansion_rom"
    /\ hist[2].idx = EXPANSION_ROM_SIZE - 1

----------------------------------------------------------------------------
(* The cycle count of every opcode: SpecCycles runs the instruction at     *)
(* $8000 and the one it leads to, for every opcode byte that decodes,      *)
(* operands and index registers that cross a page, and flags that take and *)
(* that skip each branch.                                                  *)

MaxCycleSteps == 2
CycleOpcodes  == {b \in Byte : decode_opcode(b) # "invalid"}
CycleOperands == {0, 128, 255}
CycleIndexes  == {0, 1, 255}
CycleFlags    == {36, 231}

\* the zero-page pointers $FFFF at $00/$01, $80/$81 and $FF/$00, then the
\* instruction
InitCycles ==
    /\ \E b \in CycleOpcodes, o1 \in CycleOperands, o2 \in CycleOperands,
          x \in CycleIndexes, y \in CycleIndexes, p \in CycleFlags :
          /\ cpu = [CPUNew(32768) EXCEPT !.x = x, !.y = y, !.p = p]
          /\ memory = memdump(memdump(memdump(memdump(MemoryNew,
                                  0, <<255, 255>>), 128, <<255, 255>>),
                                  255, <<255>>),
                              32768, <<b, o1, o2>>)
    /\ run = "running"
    /\ overflow_checks = TRUE
    /\ ret = 0
    /\ hist = << >>
    /\ ppu = PPUNew
    /\ dbg = DebuggerNew

CycleStep == CpuStep(MaxCycleSteps)

NextCycles == CycleStep

SpecCycles == InitCycles /\ [][NextCycles]_vars

\* C37: every instruction that executes returns a cycle count of 2..7,
\* the page-cross and branch additions included.
C37_CyclesTwoToSeven ==
    \A i \in 1..Len(hist) :
        hist[i].ok => hist[i].cycles >= 2 /\ hist[i].cycles <= 7

\* INC $80FF,X with X = 1 crossed a page and returned its 7 cycles, and so
\* did BRK; a taken branch across a page returned 5
C37_Witness ==
    /\ Len(hist) >= 1
    /\ hist[1].ok
    /\ hist[1].op = "INCAbsX"
    /\ hist[1].ins = <<254, 255, 128>>
    /\ hist[1].before.x = 1
    /\ hist[1].cycles = 7

----------------------------------------------------------------------------
(* APU and I/O registers under NES::step (SpecNes): what the PPU steps do  *)
(* after an instruction that accessed $4000-$401F.                         *)

\* the i-th instruction completed and its operand is an APU or I/O register
AccessesMisc(i) ==
    /\ hist[i].ok
    /\ absolute(hist[i].ins) >= MISC_CTRL_REGISTERS_START
    /\ absolute(hist[i].ins) <= MISC_CTRL_REGISTERS_END

\* C38: after a CPU instruction that reads or writes a register of
\* $4000-$401F, the PPU steps that follow it complete without a panic and
\* the run loop goes on.
C38_MiscAccessKeepsRunning ==
    \A i \in 1..Len(hist) :
        AccessesMisc(i)
        => /\ hist[i].ppu_ok
           /\ (i = Len(hist) => run = "running")

\* what holds instead: the PPU steps complete only after a read of $4014;
\* after a write of $4014 and after any access of another register of the
\* range the first PPU step panics
C38_OnlyDmaReadKeepsRunning ==
    \A i \in 1..Len(hist) :
        AccessesMisc(i)
        => /\ hist[i].ppu_ok
              <=> /\ absolute(hist[i].ins)
                       = MISC_CTRL_REGISTERS_START + OAMDMA
                  /\ hist[i].op \in {"LDAAbs", "BITAbs"}
           /\ ~hist[i].ppu_ok => hist[i].ppu_ticks = 1 /\ run = "panicked"

----------------------------------------------------------------------------
(* The two handoffs between the reader thread and the loop of NES::run     *)
(* (FairDebug): who waits where, and for how long.                         *)

\* tx.send(line) of the reader thread finds the slot of the line channel
\* empty while the loop runs
LineSlotFree ==
    (run = "running" /\ dbg.reader = "prompt") => dbg.receiver = << >>

\* neither channel ever holds more than its one slot
SlotsRespected == Len(dbg.receiver) <= 1 /\ Len(dbg.sender) <= 1

\* C39: in every interleaving of the reader thread and the emulator over
\* the two capacity-1 channels, exit (codes 1 then 0) and end of input
\* included, no send or receive waits forever: the reader's send finds its
\* slot free, the reader's recv returns, and a send(0) of the debugger that
\* has to wait returns.
C39_NoHandoffDeadlock ==
    /\ [](LineSlotFree /\ SlotsRespected)
    /\ (dbg.reader = "waiting") ~> (dbg.reader # "waiting")
    /\ (dbg.at = "ack") ~> (dbg.at = "top")

\* end of input: the reader has sent exit and left its loop without waiting,
\* the debugger has buffered the code 1 and waits in send(0)
C39_Witness ==
    /\ dbg.at = "ack"
    /\ dbg.sender = <<1>>
    /\ dbg.reader = "leaving"
    /\ dbg.got = "None"
    /\ dbg.shutdown

----------------------------------------------------------------------------
(* src/debugger/parser.rs: parse_raw_input.  A String is the sequence of   *)
(* its characters, each one byte wide, so that a byte offset o is the      *)
(* index o + 1 and the slice input[a..b] is SubSeq(input, a + 1, b).       *)

is_control_char(c) == c = "\\"

is_whitespace(c) == c = " " \/ c = "\t"

is_quote(c) == c = "\""

\* args.push(String::from(&input[arg_start..last])), arg_start = 0 and the
\* state back to ScanningForArguments
PushArgument(st, input, last) ==
    [st EXCEPT !.args = Append(@, SubSeq(input, st.arg_start + 1, last)),
               !.arg_start = 0,
               !.state = "ScanningForArguments"]

\* return Err(..)
ParseErr(st, e) == [st EXCEPT !.ok = FALSE, !.err = e]

\* the arm ParseState::ScanningForArguments
ScanForArguments(st, c, input) ==
    IF is_whitespace(c) THEN st
    ELSE IF is_quote(c)
        THEN IF st.offset < Len(input) - 1
                 THEN [st EXCEPT !.state = "ScanningQuotedArgument",
                                 !.arg_start = st.offset + 1]
             ELSE ParseErr(st, "quoted arg does not close")
    ELSE [st EXCEPT !.state = "ScanningArgument", !.arg_start = st.offset]

\* the first if of both scanning arms: a control character toggles
\* control_active
Controlled(st, c) ==
    IF is_control_char(c)
        THEN [st EXCEPT !.control_active = ~st.control_active]
    ELSE st

\* ignore_next after that if
IgnoreNext(st, c) == is_control_char(c) /\ ~st.control_active

\* the second if of both scanning arms, s1 the state after the first:
\* the character that ends the argument
Ended(s1, input) ==
    IF s1.control_active THEN [s1 EXCEPT !.control_active = FALSE]
    ELSE PushArgument(s1, input, s1.offset)

\* the last if of the arm ScanningArgument: the end of the input
AtLastOffset(s2, input) ==
    IF s2.offset = Len(input) - 1 THEN PushArgument(s2, input, Len(input))
    ELSE s2

\* the arm ParseState::ScanningArgument
ScanArgument(st, c, input) ==
    AtLastOffset(IF is_whitespace(c) /\ ~IgnoreNext(st, c)
                     THEN Ended(Controlled(st, c), input)
                 ELSE Controlled(st, c),
                 input)

\* the arm ParseState::ScanningQuotedArgument
ScanQuotedArgument(st, c, input) ==
    IF is_quote(c) /\ ~IgnoreNext(st, c)
        THEN Ended(Controlled(st, c), input)
    ELSE IF st.offset = Len(input) - 1
        THEN ParseErr(Controlled(st, c), "quoted arg does not close")
    ELSE Controlled(st, c)

\* the body of the for loop: the match on state, then offset += 1
Scan(st, c, input) ==
    LET s == CASE st.state = "ScanningForArguments" ->
                      ScanForArguments(st, c, input)
               [] st.state = "ScanningArgument" ->
                      ScanArgument(st, c, input)
               [] st.state = "ScanningQuotedArgument" ->
                      ScanQuotedArgument(st, c, input)
    IN  IF s.ok THEN [s EXCEPT !.offset = s.offset + 1] ELSE s

\* for c in input.chars(), from the i-th character on
RECURSIVE ScanFrom(_, _, _)
ScanFrom(st, input, i) ==
    IF ~st.ok \/ i > Len(input) THEN st
    ELSE ScanFrom(Scan(st, input[i], input), input, i + 1)

\* parse_raw_input: ok and args for Ok(args), err for Err(err)
parse_raw_input(input) ==
    ScanFrom([args |-> << >>, control_active |-> FALSE,
              state |-> "ScanningForArguments", arg_start |-> 0,
              offset |-> 0, ok |-> TRUE, err |-> ""], input, 1)

----------------------------------------------------------------------------
(* SpecParse: parse_raw_input applied to every input of at most            *)
(* MaxInputLen characters over two letters, the space, the quote and the   *)
(* backslash.                                                              *)

MaxInputLen == 5
InputChars  == {"d", "s", " ", "\"", "\\"}
Inputs      == UNION {[1..n -> InputChars] : n \in 0..MaxInputLen}

InitParse ==
    /\ cpu = CPUNew(0)
    /\ memory = MemoryNew
    /\ run = "running"
    /\ overflow_checks = TRUE
    /\ ret = 0
    /\ ppu = PPUNew
    /\ dbg = DebuggerNew
    /\ \E input \in Inputs : hist = <<[op |-> "input", input |-> input]>>

ParseCommit(input, r) ==
    /\ hist' = Append(hist, [op |-> "parse_raw_input", input |-> input,
                             ok |-> r.ok, args |-> r.args, err |-> r.err])
    /\ UNCHANGED <<cpu, memory, run, overflow_checks, ret, ppu, dbg>>

Parse ==
    /\ Len(hist) = 1
    /\ ParseCommit(hist[1].input, parse_raw_input(hist[1].input))

NextParse == Parse

SpecParse == InitParse /\ [][NextParse]_vars

\* the input is one or more tokens of letters separated by single spaces
PlainTokens(input) ==
    /\ Len(input) >= 1
    /\ \A i \in 1..Len(input) : input[i] \in {"d", "s", " "}
    /\ input[1] # " " /\ input[Len(input)] # " "
    /\ \A i \in 1..(Len(input) - 1) : ~(input[i] = " " /\ input[i + 1] = " ")

\* the tokens of such an input, in order
RECURSIVE Tokens(_)
Tokens(input) ==
    IF \A i \in 1..Len(input) : input[i] # " " THEN <<input>>
    ELSE LET k == CHOOSE i \in 1..Len(input) :
                      /\ input[i] = " "
                      /\ \A j \in 1..(i - 1) : input[j] # " "
         IN  <<SubSeq(input, 1, k - 1)>>
             \o Tokens(SubSeq(input, k + 1, Len(input)))

\* C40: for an input of unquoted, unescaped tokens separated by single
\* spaces the parser returns exactly those tokens in order, also when the
\* input is, or ends with, a token of one character.
C40_PlainTokensReturned ==
    \A i \in 2..Len(hist) :
        PlainTokens(hist[i].input)
        => hist[i].ok /\ hist[i].args = Tokens(hist[i].input)

\* the last token of the input
LastToken(input) == Tokens(input)[Len(Tokens(input))]

\* what holds instead: the tokens are returned when the last one has two
\* characters or more; a last token of one character is left out
C40_PlainTokensButShortLast ==
    \A i \in 2..Len(hist) :
        PlainTokens(hist[i].input)
        => /\ hist[i].ok
           /\ hist[i].args =
                  IF Len(LastToken(hist[i].input)) >= 2
                      THEN Tokens(hist[i].input)
                  ELSE SubSeq(Tokens(hist[i].input), 1,
                              Len(Tokens(hist[i].input)) - 1)

====
